---- MODULE Spec2Model ----
(***************************************************************************)
(* reWise backend: the RSS feed cache of routes/episodes.js and the        *)
(* handlers that read and write it.                                        *)
(*                                                                         *)
(* Node runs one handler segment at a time: a handler runs from its start  *)
(* to its first await (or to its end) without interleaving, and resumes    *)
(* after the await as a second atomic segment.  Each action below is one   *)
(* such segment.  A segment reads the clock (Date.now()) once or reads it  *)
(* several times within the same millisecond; the clock moves between      *)
(* segments (Tick).                                                        *)
(*                                                                         *)
(* Strings that the code inspects (the feedUrl query parameter) are        *)
(* sequences of one-character strings, so that trim() and the URL parser   *)
(* are computed on the characters.                                         *)
(***************************************************************************)
EXTENDS Integers, Sequences, FiniteSets, TLC

\* ------------------------------------------------------------------------
\* Bounds of the model
\* ------------------------------------------------------------------------

\* number of HTTP requests of one run of Spec
MaxReqs == 3

\* number of HTTP requests of one run of the other specifications, which
\* have more kinds of request, of feed and of failure than Spec
MaxReqsFeeds == 2

\* number of clock advances of one run
MaxTicks == 2

\* ------------------------------------------------------------------------
\* Program constants
\* ------------------------------------------------------------------------

\* const CACHE_DURATION = 10 * 60 * 1000
CACHE_DURATION == 600000

\* feed.items.slice(0, 20)
EPISODE_LIMIT == 20

\* ------------------------------------------------------------------------
\* JavaScript values
\* ------------------------------------------------------------------------

\* the value undefined / null of a string-valued property
Undefined == "<undefined>"
Null == "<null>"

\* truthiness of a string-valued property
Truthy(x) == x \notin {Undefined, Null, ""}

\* a || b
OrElse(a, b) == IF Truthy(a) THEN a ELSE b

Min(a, b) == IF a < b THEN a ELSE b

\* ------------------------------------------------------------------------
\* Strings as character sequences: trim() and new URL()
\* ------------------------------------------------------------------------

Whitespace == {" "}
Alpha == {"a", "b", "c", "d", "e", "f", "g", "h", "i", "j", "k", "l", "m",
          "n", "o", "p", "q", "r", "s", "t", "u", "v", "w", "x", "y", "z"}
SchemeChars == Alpha \cup {"+", "-", "."}

RECURSIVE TrimStart(_)
TrimStart(s) ==
    IF s # <<>> /\ Head(s) \in Whitespace THEN TrimStart(Tail(s)) ELSE s

RECURSIVE TrimEnd(_)
TrimEnd(s) ==
    IF s # <<>> /\ s[Len(s)] \in Whitespace
    THEN TrimEnd(SubSeq(s, 1, Len(s) - 1))
    ELSE s

\* String.prototype.trim
Trim(s) == TrimEnd(TrimStart(s))

\* index of the first ":" of s, 0 when there is none
ColonIndex(s) ==
    IF \E i \in 1..Len(s) : s[i] = ":"
    THEN CHOOSE i \in 1..Len(s) : s[i] = ":" /\ \A j \in 1..(i - 1) : s[j] # ":"
    ELSE 0

\* the schemes whose URLs must have a host
SpecialSchemes ==
    { <<"h", "t", "t", "p">>, <<"h", "t", "t", "p", "s">>,
      <<"f", "t", "p">>, <<"w", "s">>, <<"w", "s", "s">> }

RECURSIVE SkipSlashes(_)
SkipSlashes(s) ==
    IF s # <<>> /\ Head(s) \in {"/", "\\"} THEN SkipSlashes(Tail(s)) ELSE s

\* the host of an authority: the characters up to the first "/", "?" or "#"
RECURSIVE HostOf(_)
HostOf(s) ==
    IF s = <<>> \/ Head(s) \in {"/", "\\", "?", "#"}
    THEN <<>>
    ELSE <<Head(s)>> \o HostOf(Tail(s))

\* a URL check that accepts every string
URLParses_any(s) == TRUE

\* new URL(s) with no base does not throw: s, stripped of leading and
\* trailing spaces, starts with a scheme and ":", and a special scheme is
\* followed by a non-empty host without a forbidden character
URLParses(s) ==
    LET t == Trim(s)
        c == ColonIndex(t)
        scheme == SubSeq(t, 1, c - 1)
        rest == SubSeq(t, c + 1, Len(t))
        host == HostOf(SkipSlashes(rest))
    IN  /\ c > 1
        /\ t[1] \in Alpha
        /\ \A i \in 1..(c - 1) : t[i] \in SchemeChars
        /\ scheme \in SpecialSchemes =>
              /\ host # <<>>
              /\ \A i \in 1..Len(host) : host[i] \notin Whitespace

\* ------------------------------------------------------------------------
\* Inputs
\* ------------------------------------------------------------------------

UrlA == <<"h", "t", "t", "p", ":", "/", "/", "a">>
UrlB == <<"h", "t", "t", "p", ":", "/", "/", "b">>
UrlInvalid == <<"i", "n", "v", "a", "l", "i", "d", "-", "u", "r", "l">>
UrlBlank == <<" ", " ">>
UrlEmpty == <<>>
UrlNoScheme == <<"/", "/", "a">>
UrlNoHost == <<"h", "t", "t", "p", ":", "/", "/">>
UrlMailto == <<"m", "a", "i", "l", "t", "o", ":", "a">>

\* URLs of the same feed that differ from UrlA in one character
UrlASlash == UrlA \o <<"/">>
UrlASpace == UrlA \o <<" ">>

\* req.query.feedUrl: absent, a string, or an array of strings (the parameter
\* given twice, feedUrl=a&feedUrl=b), with s the string that the array
\* converts to
QueryMissing == [kind |-> "undefined", s |-> <<>>]
QueryString(s) == [kind |-> "string", s |-> s]
QueryArray == [kind |-> "array", s |-> <<"a", ",", "b">>]

\* the feedUrl values of the requests of Spec
CacheInputs == {QueryString(s) : s \in {UrlA, UrlB}}

\* the feedUrl values of the requests of SpecKeys
KeysInputs == {QueryString(s) : s \in {UrlA, UrlASlash, UrlASpace}}

\* the feedUrl values of the requests of SpecFeeds
FeedsInputs == {QueryString(s) : s \in {UrlInvalid, UrlA, UrlB}}

\* the feedUrl values of the requests of SpecInputs
FeedUrlInputs ==
    {QueryMissing, QueryArray} \cup
    {QueryString(s) : s \in {UrlEmpty, UrlBlank, UrlInvalid, UrlNoScheme, UrlNoHost,
                              UrlMailto, UrlA}}

\* an item of a parsed feed
MkItem(i, audio) ==
    [ title |-> "ep" \o ToString(i),
      contentSnippet |-> Undefined,
      summary |-> "",
      description |-> "about " \o ToString(i),
      pubDate |-> Undefined,
      isoDate |-> "2024",
      enclosure |-> IF audio THEN [has |-> TRUE, url |-> "audio" \o ToString(i)]
                             ELSE [has |-> FALSE, url |-> Undefined] ]

\* what parser.parseURL resolves to: an object whose items property is an
\* array, is undefined, or is something that is not an array
FeedShort == [items |-> [kind |-> "array",
                         elems |-> <<MkItem(1, TRUE), MkItem(2, FALSE), MkItem(3, TRUE)>>]]
FeedLong == [items |-> [kind |-> "array",
                        elems |-> [i \in 1..22 |-> MkItem(i, i # 2)]]]
FeedNoItems == [items |-> [kind |-> "undefined", elems |-> <<>>]]

\* a feed whose items property is not an array
FeedItemsNotArray == [items |-> [kind |-> "object", elems |-> <<>>]]

\* a feed with an empty item list, and one with 25 items that all have audio
FeedEmpty == [items |-> [kind |-> "array", elems |-> <<>>]]
FeedFull == [items |-> [kind |-> "array",
                        elems |-> [i \in 1..25 |-> MkItem(i, TRUE)]]]

\* a feed of 21 items of which only the last has an audio URL
FeedNoAudio == [items |-> [kind |-> "array",
                           elems |-> [i \in 1..21 |-> MkItem(i, i = 21)]]]

Feeds == {FeedShort, FeedLong, FeedNoItems}

\* an item with these values of title, contentSnippet, summary and
\* description, and with an enclosure url
MkItemOf(i, title, contentSnippet, summary, description) ==
    [ title |-> title,
      contentSnippet |-> contentSnippet,
      summary |-> summary,
      description |-> description,
      pubDate |-> IF i = 1 THEN "Mon, 01 Jan 2024" ELSE Undefined,
      isoDate |-> IF i <= 2 THEN "2024-01-01" ELSE Undefined,
      enclosure |-> [has |-> TRUE, url |-> "audio" \o ToString(i)] ]

\* a feed whose items lack a title or some of the sources of the
\* description
FeedFields ==
    [items |-> [kind |-> "array",
                elems |-> << MkItemOf(1, Undefined, "snippet1", "summary1", "description1"),
                             MkItemOf(2, "", Undefined, "summary2", "description2"),
                             MkItemOf(3, "title3", Undefined, "", "description3"),
                             MkItemOf(4, "title4", Undefined, Undefined, Undefined) >>]]

\* what parser.parseURL rejects with: an Error with a code and a message
\* (the message as a sequence of words)
ErrTimeout == [code |-> "ECONNABORTED", message |-> <<"timeout", "of", "10000ms", "exceeded">>]
ErrNotFound == [code |-> "ENOTFOUND", message |-> <<"getaddrinfo", "ENOTFOUND", "a">>]
ErrInvalidXML == [code |-> Undefined, message |-> <<"Error:", "Invalid", "XML", "document">>]
ErrStatus == [code |-> Undefined, message |-> <<"Status", "code", "500">>]

\* the TypeError of calling trim on a value that is not a string
ErrNotAString == [code |-> Undefined,
                  message |-> <<"feedUrl.trim", "is", "not", "a", "function">>]

Errors == {ErrTimeout, ErrNotFound, ErrInvalidXML, ErrStatus}

\* parseURL resolved with the feed f, or rejected with the error e
Resolved(f) == [settled |-> TRUE, ok |-> TRUE, feed |-> f]
Rejected(e) == [settled |-> TRUE, ok |-> FALSE, error |-> e]

\* the fetch has not settled, or there was none
NoOutcome == [settled |-> FALSE]

\* how the fetches of SpecInputs settle
FetchOutcomes == {Resolved(f) : f \in Feeds} \cup {Rejected(e) : e \in Errors}

\* how the fetches of Spec settle
CacheOutcomes == {Resolved(FeedShort)}

\* how the fetches of SpecFailures settle: with a feed, or in one of the
\* ways a fetch fails
FailureOutcomes ==
    {Resolved(FeedShort), Resolved(FeedNoAudio), Resolved(FeedNoItems),
     Resolved(FeedItemsNotArray)}
    \cup {Rejected(e) : e \in Errors}

\* the feedUrl values of the requests of SpecServer
ServerFeedUrls ==
    {QueryMissing, QueryArray} \cup {QueryString(s) : s \in {UrlInvalid, UrlA}}

\* how the fetches of SpecServer settle
ServerFetchOutcomes ==
    {Resolved(f) : f \in {FeedShort, FeedLong, FeedEmpty, FeedFull, FeedFields,
                           FeedNoItems}}
    \cup {Rejected(e) : e \in Errors}

\* how the fetches of SpecKeys settle
KeysOutcomes == {Resolved(FeedShort), Resolved(FeedLong)}

\* how the fetches of SpecFeeds settle
FeedsOutcomes == {Resolved(FeedShort), Resolved(FeedLong), Rejected(ErrTimeout)}

\* req.query.term of a search request
TermA == <<"a">>
TermBlank == <<" ">>
TermEmpty == <<>>

TermInputs ==
    {QueryMissing, QueryArray} \cup
    {QueryString(s) : s \in {TermEmpty, TermBlank, TermA}}

\* a record of the results of the iTunes search
MkPodcast(i, named, feed, art600, art100) ==
    [ collectionName |-> IF named THEN "podcast" \o ToString(i) ELSE Undefined,
      feedUrl |-> IF feed THEN "feed" \o ToString(i) ELSE Undefined,
      artworkUrl600 |-> IF art600 THEN "art600-" \o ToString(i) ELSE Undefined,
      artworkUrl100 |-> IF art100 THEN "art100-" \o ToString(i) ELSE Undefined,
      artistName |-> IF named THEN "artist" \o ToString(i) ELSE "" ]

\* response.data of the iTunes search: an object whose results property is
\* an array, is undefined, or is something that is not an array; or null (the
\* body "null")
DataSome ==
    [ kind |-> "object",
      results |-> [kind |-> "array",
                   elems |-> << MkPodcast(1, TRUE, TRUE, TRUE, TRUE),
                                MkPodcast(2, TRUE, FALSE, TRUE, TRUE),
                                MkPodcast(3, FALSE, TRUE, FALSE, TRUE),
                                MkPodcast(4, TRUE, TRUE, FALSE, FALSE) >>] ]
DataNone == [kind |-> "object", results |-> [kind |-> "array", elems |-> <<>>]]
DataNoResults == [kind |-> "object", results |-> [kind |-> "undefined", elems |-> <<>>]]
DataResultsNotArray == [kind |-> "object", results |-> [kind |-> "object", elems |-> <<>>]]
DataNull == [kind |-> "null", results |-> [kind |-> "undefined", elems |-> <<>>]]

SearchData == {DataSome, DataNone, DataNoResults, DataResultsNotArray, DataNull}

\* what axios.get rejects with: an error with a code and, when the server
\* answered with a status outside 2xx, the response
AxiosTimeout == [code |-> "ECONNABORTED", response |-> [has |-> FALSE, status |-> 0]]
AxiosStatus(n) == [code |-> "ERR_BAD_RESPONSE", response |-> [has |-> TRUE, status |-> n]]
AxiosNetwork == [code |-> "ENOTFOUND", response |-> [has |-> FALSE, status |-> 0]]

\* the TypeError of reading a property of null, or of calling trim on a
\* value that is not a string
TypeError == [code |-> Undefined, response |-> [has |-> FALSE, status |-> 0]]

UpstreamStatuses == {403, 503}

AxiosErrors == {AxiosTimeout, AxiosNetwork} \cup {AxiosStatus(n) : n \in UpstreamStatuses}

\* axios.get resolved with the data d
ResolvedData(d) == [settled |-> TRUE, ok |-> TRUE, data |-> d]

\* how the calls of the iTunes search settle
SearchOutcomes == {ResolvedData(d) : d \in SearchData} \cup {Rejected(e) : e \in AxiosErrors}

Reqs == 1..MaxReqs

\* the requests of SpecFeeds
ReqsFeeds == 1..MaxReqsFeeds

\* the clock advances by a millisecond or by just under the cache duration
TickSteps == {1, CACHE_DURATION - 1}

\* ------------------------------------------------------------------------
\* State
\* ------------------------------------------------------------------------

VARIABLES
    feedCache,  \* the Map: a sequence of [url, data] in insertion order
    now,        \* Date.now()
    reqs,       \* the requests: where each handler is, its locals, its response
    seq,        \* number of handler segments run so far
    ticks       \* number of clock advances so far

vars == <<feedCache, now, reqs, seq, ticks>>

\* what Map.prototype.get returns for a key that is not there
NoEntry == [defined |-> FALSE]

NoResponse == [status |-> 0]

\* a request that has not arrived
IdleReq ==
    [ pc |-> "idle", route |-> "none", feedUrl |-> QueryMissing,
      term |-> QueryMissing,
      cachedData |-> NoEntry, fetched |-> FALSE, outcome |-> NoOutcome,
      response |-> NoResponse, arrivedSeq |-> 0, respondedSeq |-> 0 ]

Init ==
    /\ feedCache = <<>>
    /\ now = 0
    /\ reqs = [r \in Reqs |-> IdleReq]
    /\ seq = 0
    /\ ticks = 0

\* ------------------------------------------------------------------------
\* The Map feedCache
\* ------------------------------------------------------------------------

MapHas(m, k) == \E i \in 1..Len(m) : m[i].url = k

MapIndex(m, k) == CHOOSE i \in 1..Len(m) : m[i].url = k

\* Map.prototype.get
MapGet(m, k) == IF MapHas(m, k) THEN m[MapIndex(m, k)].data ELSE NoEntry

\* Map.prototype.set: a present key keeps its place, a new key is appended
MapSet(m, k, d) ==
    IF MapHas(m, k)
    THEN [m EXCEPT ![MapIndex(m, k)] = [url |-> k, data |-> d]]
    ELSE Append(m, [url |-> k, data |-> d])

MapKeys(m) == {m[i].url : i \in 1..Len(m)}

\* ------------------------------------------------------------------------
\* routes/episodes.js
\* ------------------------------------------------------------------------

\* isCacheValid with <= for <
isCacheValid_inclusive(cacheEntry, t) ==
    cacheEntry.defined /\ (t - cacheEntry.timestamp) <= CACHE_DURATION

\* isCacheValid with the duration taken in seconds
isCacheValid_seconds(cacheEntry, t) ==
    cacheEntry.defined /\ (t - cacheEntry.timestamp) < CACHE_DURATION \div 1000

\* isCacheValid without the age test
isCacheValid_noExpiry(cacheEntry, t) == cacheEntry.defined

\* function isCacheValid(cacheEntry), called when Date.now() is t
isCacheValid(cacheEntry, t) ==
    cacheEntry.defined /\ (t - cacheEntry.timestamp) < CACHE_DURATION

\* a map without the fallbacks of title and description
FormatEpisode_raw(item) ==
    [ title |-> item.title,
      description |-> item.contentSnippet,
      pubDate |-> OrElse(item.pubDate, OrElse(item.isoDate, Null)),
      audioUrl |-> OrElse(IF item.enclosure.has THEN item.enclosure.url ELSE Undefined,
                          Null) ]

\* .map(item => ({...}))
FormatEpisode(item) ==
    [ title |-> OrElse(item.title, "Untitled"),
      description |-> OrElse(item.contentSnippet,
                        OrElse(item.summary,
                          OrElse(item.description, "No description available"))),
      pubDate |-> OrElse(item.pubDate, OrElse(item.isoDate, Null)),
      audioUrl |-> OrElse(IF item.enclosure.has THEN item.enclosure.url ELSE Undefined,
                          Null) ]

\* a slice that keeps every item
Slice20_all(items) == items

\* items.slice(0, 20)
Slice20(items) == SubSeq(items, 1, Min(EPISODE_LIMIT, Len(items)))

\* a filter that keeps every episode
HasAudio_any(episode) == TRUE

HasAudio(episode) == Truthy(episode.audioUrl)

\* a normalization that filters before it slices
NormalizeEpisodes_filterFirst(items) ==
    LET mapped == [i \in 1..Len(items) |-> FormatEpisode(items[i])]
    IN  Slice20(SelectSeq(mapped, HasAudio))

\* feed.items.slice(0, 20).map(...).filter(episode => episode.audioUrl)
NormalizeEpisodes(items) ==
    LET first == Slice20(items)
        mapped == [i \in 1..Len(first) |-> FormatEpisode(first[i])]
    IN  SelectSeq(mapped, HasAudio)

\* String.prototype.includes on word sequences
Includes(msg, words) ==
    \E i \in 1..(Len(msg) - Len(words) + 1) :
        SubSeq(msg, i, i + Len(words) - 1) = words

\* a catch block that answers every error alike
EpisodesCatch_generic(error) ==
    [status |-> 500, error |-> "Internal server error",
     message |-> "An error occurred while fetching episodes"]

\* the catch block of the episodes handler
EpisodesCatch(error) ==
    IF error.code = "ECONNABORTED"
    THEN [status |-> 504, error |-> "Request timeout",
          message |-> "The RSS feed request timed out. Please try again."]
    ELSE IF error.code = "ENOTFOUND"
    THEN [status |-> 404, error |-> "Feed not found",
          message |-> "The RSS feed URL could not be found or is not accessible"]
    ELSE IF Includes(error.message, <<"Invalid", "XML">>)
    THEN [status |-> 400, error |-> "Invalid RSS feed",
          message |-> "The provided URL does not contain a valid RSS feed format"]
    ELSE [status |-> 500, error |-> "Internal server error",
          message |-> "An error occurred while fetching episodes"]

\* requests arrive in the order of their numbers
CanArrive(r) ==
    /\ reqs[r].pc = "idle"
    /\ \A p \in Reqs : p < r => reqs[p].pc # "idle"

\* the request r once its handler has sent the response
Responded(r, route, q, fetched, outcome, response) ==
    [ pc |-> "done", route |-> route, feedUrl |-> q,
      term |-> QueryMissing,
      cachedData |-> NoEntry, fetched |-> fetched, outcome |-> outcome,
      response |-> response,
      arrivedSeq |-> IF reqs[r].pc = "idle" THEN seq + 1 ELSE reqs[r].arrivedSeq,
      respondedSeq |-> seq + 1 ]

\* a request whose fetch has no timeout and never settles
Awaiting_noTimeout(q, cachedData) ==
    [ pc |-> "stalled", route |-> "episodes", feedUrl |-> q,
      term |-> QueryMissing,
      cachedData |-> cachedData, fetched |-> TRUE, outcome |-> NoOutcome,
      response |-> NoResponse, arrivedSeq |-> seq + 1, respondedSeq |-> 0 ]

\* a request that starts no fetch of its own when a fetch for its URL is
\* in flight
Awaiting_joined(q, cachedData) ==
    [ pc |-> "awaiting", route |-> "episodes", feedUrl |-> q,
      term |-> QueryMissing,
      cachedData |-> cachedData,
      fetched |-> ~\E p \in Reqs : reqs[p].pc = "awaiting" /\ reqs[p].feedUrl = q,
      outcome |-> NoOutcome,
      response |-> NoResponse, arrivedSeq |-> seq + 1, respondedSeq |-> 0 ]

\* the request r suspended at await parser.parseURL(feedUrl)
Awaiting(q, cachedData) ==
    [ pc |-> "awaiting", route |-> "episodes", feedUrl |-> q,
      term |-> QueryMissing,
      cachedData |-> cachedData, fetched |-> TRUE, outcome |-> NoOutcome,
      response |-> NoResponse, arrivedSeq |-> seq + 1, respondedSeq |-> 0 ]

\* a cache-hit response that reports the URL without the spaces around it
CachedResponse_trimmed(feedUrl, cachedData) ==
    [ status |-> 200, episodes |-> cachedData.episodes,
      count |-> Len(cachedData.episodes), feedUrl |-> Trim(feedUrl),
      cached |-> TRUE, cacheTimestamp |-> cachedData.timestamp ]

\* the response of the cache-hit branch
CachedResponse(feedUrl, cachedData) ==
    [ status |-> 200, episodes |-> cachedData.episodes,
      count |-> Len(cachedData.episodes), feedUrl |-> feedUrl,
      cached |-> TRUE, cacheTimestamp |-> cachedData.timestamp ]

\* a response put together from what the Map held for the key before the
\* write, when it held something
FreshResponse_beforeWrite(feedUrl, episodes, cacheEntry) ==
    LET held == MapGet(feedCache, feedUrl) IN
    IF held.defined
    THEN [ status |-> 200, episodes |-> held.episodes,
           count |-> Len(held.episodes), feedUrl |-> feedUrl,
           cached |-> FALSE, cacheTimestamp |-> held.timestamp ]
    ELSE [ status |-> 200, episodes |-> episodes,
           count |-> Len(episodes), feedUrl |-> feedUrl,
           cached |-> FALSE, cacheTimestamp |-> cacheEntry.timestamp ]

\* the response after a fetch
FreshResponse(feedUrl, episodes, cacheEntry) ==
    [ status |-> 200, episodes |-> episodes,
      count |-> Len(episodes), feedUrl |-> feedUrl,
      cached |-> FALSE, cacheTimestamp |-> cacheEntry.timestamp ]

\* a key that is the feed URL without the spaces around it and without
\* a slash at its end
CacheKey_normalized(feedUrl) ==
    LET t == Trim(feedUrl) IN
    IF t # <<>> /\ t[Len(t)] = "/" THEN SubSeq(t, 1, Len(t) - 1) ELSE t

\* const cacheKey = feedUrl
CacheKey(feedUrl) == feedUrl

\* a lookup that, on a miss, reserves the key with an empty entry stamped
\* with the time of the lookup
MapAfterGet_reserve(m, k) ==
    IF isCacheValid(MapGet(m, k), now)
    THEN m
    ELSE MapSet(m, k, [defined |-> TRUE, episodes |-> <<>>, timestamp |-> now])

\* a get that takes the entry out of the Map
MapAfterGet_delete(m, k) == SelectSeq(m, LAMBDA p : p.url # k)

\* feedCache.get(cacheKey) leaves the Map as it is
MapAfterGet(m, k) == m

\* router.get('/'), from the start to the await of parser.parseURL
EpisodesRequest(r, q) ==
    /\ CanArrive(r)
    /\ seq' = seq + 1
    /\ UNCHANGED <<now, ticks>>
    /\ IF q.kind = "array"
       THEN /\ reqs' = [reqs EXCEPT ![r] = Responded(r, "episodes", q, FALSE, NoOutcome,
                   EpisodesCatch(ErrNotAString))]
            /\ UNCHANGED feedCache
       ELSE IF q.kind = "undefined" \/ q.s = <<>> \/ Trim(q.s) = <<>>
       THEN /\ reqs' = [reqs EXCEPT ![r] = Responded(r, "episodes", q, FALSE, NoOutcome,
                   [status |-> 400, error |-> "Feed URL is required",
                    message |-> "Please provide a feed URL using ?feedUrl=your_rss_feed_url"])]
            /\ UNCHANGED feedCache
       ELSE IF ~URLParses(q.s)
       THEN /\ reqs' = [reqs EXCEPT ![r] = Responded(r, "episodes", q, FALSE, NoOutcome,
                   [status |-> 400, error |-> "Invalid URL format",
                    message |-> "Please provide a valid RSS feed URL"])]
            /\ UNCHANGED feedCache
       ELSE LET cacheKey == CacheKey(q.s)
                cachedData == MapGet(feedCache, cacheKey)
            IN  /\ feedCache' = MapAfterGet(feedCache, cacheKey)
                /\ IF isCacheValid(cachedData, now)
                   THEN reqs' = [reqs EXCEPT ![r] = Responded(r, "episodes", q, FALSE,
                            NoOutcome, CachedResponse(q.s, cachedData))]
                   ELSE reqs' = [reqs EXCEPT ![r] = Awaiting(q, cachedData)]

\* an entry stamped with the clock reduced to the current ten minutes
CacheEntry_wrapped(episodes, t) ==
    [defined |-> TRUE, episodes |-> episodes, timestamp |-> t % CACHE_DURATION]

\* an entry without the time of its creation
CacheEntry_noStamp(episodes, t) == [defined |-> TRUE, episodes |-> episodes, timestamp |-> 0]

\* const cacheEntry = { episodes, timestamp: Date.now() }
CacheEntry(episodes, t) == [defined |-> TRUE, episodes |-> episodes, timestamp |-> t]

\* a write that keeps the entry a key already has
CacheWrite_ifAbsent(m, cacheKey, cacheEntry) ==
    IF MapHas(m, cacheKey) THEN m ELSE MapSet(m, cacheKey, cacheEntry)

\* a write that also drops the entries that have expired by then
CacheWrite_prune(m, cacheKey, cacheEntry) ==
    MapSet(SelectSeq(m, LAMBDA p : p.url = cacheKey
                                   \/ isCacheValid(p.data, cacheEntry.timestamp)),
           cacheKey, cacheEntry)

\* a write that updates the episodes of a present entry in place
CacheWrite_keepTimestamp(m, cacheKey, cacheEntry) ==
    IF MapHas(m, cacheKey)
    THEN MapSet(m, cacheKey, [cacheEntry EXCEPT !.timestamp = MapGet(m, cacheKey).timestamp])
    ELSE MapSet(m, cacheKey, cacheEntry)

\* a write that stores nothing when the list of episodes is empty
CacheWrite_nonEmpty(m, cacheKey, cacheEntry) ==
    IF cacheEntry.episodes = <<>> THEN m ELSE MapSet(m, cacheKey, cacheEntry)

\* a write that is dropped when a clear has run while a request for the
\* key was waiting for its fetch
CacheWrite_unlessCleared(m, cacheKey, cacheEntry) ==
    IF \E c, r \in Reqs :
          /\ reqs[c].pc = "done" /\ reqs[c].route = "clear"
          /\ reqs[r].pc = "awaiting" /\ reqs[r].feedUrl.s = cacheKey
          /\ reqs[r].arrivedSeq < reqs[c].respondedSeq
    THEN m
    ELSE MapSet(m, cacheKey, cacheEntry)

\* feedCache.set(cacheKey, cacheEntry)
CacheWrite(m, cacheKey, cacheEntry) == MapSet(m, cacheKey, cacheEntry)

\* a check that lets every feed through, with no items when it has no
\* item list
HasItemList_any(feed) == TRUE

\* the negation of !feed.items || !Array.isArray(feed.items)
HasItemList(feed) == feed.items.kind = "array"

\* a failed fetch that evicts the entry of its key
MapAfterFailure_evict(m, k) == SelectSeq(m, LAMBDA p : p.url # k)

\* the paths of a failed fetch (the return of the item-list check and the
\* catch block) have no statement on feedCache
MapAfterFailure(m, k) == m

\* router.get('/'), from the settling of parser.parseURL to the response
EpisodesResume(r, out) ==
    /\ reqs[r].pc = "awaiting"
    /\ reqs[r].route = "episodes"
    /\ seq' = seq + 1
    /\ UNCHANGED <<now, ticks>>
    /\ LET q == reqs[r].feedUrl IN
       IF ~out.ok
       THEN /\ reqs' = [reqs EXCEPT ![r] =
                   Responded(r, "episodes", q, TRUE, out, EpisodesCatch(out.error))]
            /\ feedCache' = MapAfterFailure(feedCache, q.s)
       ELSE IF ~HasItemList(out.feed)
       THEN /\ reqs' = [reqs EXCEPT ![r] = Responded(r, "episodes", q, TRUE, out,
                   [status |-> 400, error |-> "Invalid RSS feed",
                    message |-> "The provided URL does not contain a valid RSS feed"])]
            /\ feedCache' = MapAfterFailure(feedCache, q.s)
       ELSE LET episodes == NormalizeEpisodes(out.feed.items.elems)
                cacheEntry == CacheEntry(episodes, now)
            IN  /\ feedCache' = CacheWrite(feedCache, CacheKey(q.s), cacheEntry)
                /\ reqs' = [reqs EXCEPT ![r] = Responded(r, "episodes", q, TRUE, out,
                       FreshResponse(q.s, episodes, cacheEntry))]

\* a clear that removes one entry
Cleared_dropFirst(m) == IF m = <<>> THEN m ELSE Tail(m)

\* feedCache.clear()
Cleared(m) == <<>>

\* router.get('/cache/clear')
ClearRequest(r) ==
    /\ CanArrive(r)
    /\ seq' = seq + 1
    /\ UNCHANGED <<now, ticks>>
    /\ LET cacheSize == Len(feedCache) IN
       /\ feedCache' = Cleared(feedCache)
       /\ reqs' = [reqs EXCEPT ![r] = Responded(r, "clear", QueryMissing, FALSE, NoOutcome,
              [status |-> 200, message |-> "Cache cleared successfully",
               clearedEntries |-> cacheSize])]

\* a status with a freshness test of its own, which counts an entry of
\* exactly ten minutes as valid
StatusBody_ownTest(m, t) ==
    [ status |-> 200,
      cacheSize |-> Len(m),
      entries |-> [i \in 1..Len(m) |->
                     [ url |-> m[i].url,
                       episodeCount |-> Len(m[i].data.episodes),
                       timestamp |-> m[i].data.timestamp,
                       isValid |-> t - m[i].data.timestamp <= CACHE_DURATION ]] ]

\* a status that lists the valid entries only
StatusBody_validOnly(m, t) ==
    LET valid == SelectSeq(m, LAMBDA p : isCacheValid(p.data, t)) IN
    [ status |-> 200,
      cacheSize |-> Len(valid),
      entries |-> [i \in 1..Len(valid) |->
                     [ url |-> valid[i].url,
                       episodeCount |-> Len(valid[i].data.episodes),
                       timestamp |-> valid[i].data.timestamp,
                       isValid |-> TRUE ]] ]

\* the body of the status response for the Map m when Date.now() is t
StatusBody(m, t) ==
    [ status |-> 200,
      cacheSize |-> Len(m),
      entries |-> [i \in 1..Len(m) |->
                     [ url |-> m[i].url,
                       episodeCount |-> Len(m[i].data.episodes),
                       timestamp |-> m[i].data.timestamp,
                       isValid |-> isCacheValid(m[i].data, t) ]] ]

\* router.get('/cache/status')
StatusRequest(r) ==
    /\ CanArrive(r)
    /\ seq' = seq + 1
    /\ UNCHANGED <<feedCache, now, ticks>>
    /\ reqs' = [reqs EXCEPT ![r] = Responded(r, "status", QueryMissing, FALSE, NoOutcome,
           StatusBody(feedCache, now))]

\* time passes between handler segments
Tick(d) ==
    /\ ticks < MaxTicks
    /\ now' = now + d
    /\ ticks' = ticks + 1
    /\ UNCHANGED <<feedCache, reqs, seq>>

\* ------------------------------------------------------------------------
\* routes/search.js
\*
\* The responses of this route, and of server.js, are a status and a body,
\* because a body can itself have a property called status.
\* ------------------------------------------------------------------------

\* a map without the fallbacks
FormatPodcast_raw(podcast) ==
    [ podcastName |-> podcast.collectionName,
      feedUrl |-> OrElse(podcast.feedUrl, Null),
      artwork |-> podcast.artworkUrl600,
      artistName |-> podcast.artistName ]

\* .map(podcast => ({...}))
FormatPodcast(podcast) ==
    [ podcastName |-> OrElse(podcast.collectionName, "Unknown"),
      feedUrl |-> OrElse(podcast.feedUrl, Null),
      artwork |-> OrElse(podcast.artworkUrl600, OrElse(podcast.artworkUrl100, Null)),
      artistName |-> OrElse(podcast.artistName, "Unknown") ]

\* a filter that keeps every podcast
HasFeedUrl_any(podcast) == TRUE

HasFeedUrl(podcast) == Truthy(podcast.feedUrl)

\* data.results.map(...).filter(podcast => podcast.feedUrl)
NormalizePodcasts(results) ==
    LET mapped == [i \in 1..Len(results) |-> FormatPodcast(results[i])]
    IN  SelectSeq(mapped, HasFeedUrl)

\* a catch block that answers every error alike
SearchCatch_generic(error) ==
    [ status |-> 500,
      body |-> [ error |-> "Internal server error",
                 message |-> "An error occurred while searching for podcasts" ] ]

\* the catch block of the search handler
SearchCatch(error) ==
    IF error.code = "ECONNABORTED"
    THEN [ status |-> 504,
           body |-> [ error |-> "Request timeout",
                      message |-> "The iTunes API request timed out. Please try again." ] ]
    ELSE IF error.response.has
    THEN [ status |-> 502,
           body |-> [ error |-> "iTunes API error",
                      message |-> "Unable to fetch data from iTunes API",
                      status |-> error.response.status ] ]
    ELSE [ status |-> 500,
           body |-> [ error |-> "Internal server error",
                      message |-> "An error occurred while searching for podcasts" ] ]

\* the search request r once its handler has sent the response; called
\* tells whether axios.get was called
SearchResponded(r, t, called, outcome, response) ==
    [ pc |-> "done", route |-> "search", feedUrl |-> QueryMissing,
      term |-> t,
      cachedData |-> NoEntry, fetched |-> called, outcome |-> outcome,
      response |-> response,
      arrivedSeq |-> IF reqs[r].pc = "idle" THEN seq + 1 ELSE reqs[r].arrivedSeq,
      respondedSeq |-> seq + 1 ]

\* the search request suspended at await axios.get(itunesUrl, ...)
SearchAwaiting(t) ==
    [ pc |-> "awaiting", route |-> "search", feedUrl |-> QueryMissing,
      term |-> t,
      cachedData |-> NoEntry, fetched |-> TRUE, outcome |-> NoOutcome,
      response |-> NoResponse, arrivedSeq |-> seq + 1, respondedSeq |-> 0 ]

\* a validation that lets a blank term through
TermIsBlank_never(t) == FALSE

\* !term || term.trim() === ''
TermIsBlank(t) == t.kind = "undefined" \/ t.s = <<>> \/ Trim(t.s) = <<>>

\* router.get('/'), from the start to the await of axios.get
SearchRequest(r, t) ==
    /\ CanArrive(r)
    /\ seq' = seq + 1
    /\ UNCHANGED <<feedCache, now, ticks>>
    /\ IF t.kind = "array"
       THEN reqs' = [reqs EXCEPT ![r] =
                SearchResponded(r, t, FALSE, NoOutcome, SearchCatch(TypeError))]
       ELSE IF TermIsBlank(t)
       THEN reqs' = [reqs EXCEPT ![r] = SearchResponded(r, t, FALSE, NoOutcome,
                [ status |-> 400,
                  body |-> [ error |-> "Search term is required",
                             message |-> "Please provide a search term using ?term=your_search_term" ] ])]
       ELSE reqs' = [reqs EXCEPT ![r] = SearchAwaiting(t)]

\* the response for a data without a results array
NoResultsResponse ==
    [ status |-> 200,
      body |-> [ podcasts |-> <<>>,
                 message |-> "No podcasts found for the given search term" ] ]

\* the response for a results array
PodcastsResponse(podcasts, term) ==
    [ status |-> 200,
      body |-> [ podcasts |-> podcasts, count |-> Len(podcasts), searchTerm |-> term ] ]

\* router.get('/'), from the settling of axios.get to the response
SearchResume(r, out) ==
    /\ reqs[r].pc = "awaiting"
    /\ reqs[r].route = "search"
    /\ seq' = seq + 1
    /\ UNCHANGED <<feedCache, now, ticks>>
    /\ LET t == reqs[r].term IN
       IF ~out.ok
       THEN reqs' = [reqs EXCEPT ![r] =
                SearchResponded(r, t, TRUE, out, SearchCatch(out.error))]
       ELSE IF out.data.kind = "null"
       THEN reqs' = [reqs EXCEPT ![r] =
                SearchResponded(r, t, TRUE, out, SearchCatch(TypeError))]
       ELSE IF out.data.results.kind # "array"
       THEN reqs' = [reqs EXCEPT ![r] =
                SearchResponded(r, t, TRUE, out, NoResultsResponse)]
       ELSE reqs' = [reqs EXCEPT ![r] = SearchResponded(r, t, TRUE, out,
                PodcastsResponse(NormalizePodcasts(out.data.results.elems), t.s))]

\* ------------------------------------------------------------------------
\* server.js
\* ------------------------------------------------------------------------

\* a request answered in the segment in which it arrives by a handler of
\* server.js
ServerResponded(r, route, response) ==
    [ pc |-> "done", route |-> route, feedUrl |-> QueryMissing,
      term |-> QueryMissing,
      cachedData |-> NoEntry, fetched |-> FALSE, outcome |-> NoOutcome,
      response |-> response,
      arrivedSeq |-> seq + 1, respondedSeq |-> seq + 1 ]

\* a health check that also empties the cache
HealthRequest_purge(r) ==
    /\ CanArrive(r)
    /\ seq' = seq + 1
    /\ UNCHANGED <<now, ticks>>
    /\ feedCache' = <<>>
    /\ reqs' = [reqs EXCEPT ![r] = ServerResponded(r, "health",
           [status |-> 200, body |-> [status |-> "OK", message |-> "Server is running"]])]

\* app.get('/health')
HealthRequest(r) ==
    /\ CanArrive(r)
    /\ seq' = seq + 1
    /\ UNCHANGED <<feedCache, now, ticks>>
    /\ reqs' = [reqs EXCEPT ![r] = ServerResponded(r, "health",
           [status |-> 200, body |-> [status |-> "OK", message |-> "Server is running"]])]

\* app.use('*'): a request that no route matched
NotFoundRequest(r) ==
    /\ CanArrive(r)
    /\ seq' = seq + 1
    /\ UNCHANGED <<feedCache, now, ticks>>
    /\ reqs' = [reqs EXCEPT ![r] = ServerResponded(r, "unmatched",
           [status |-> 404, body |-> [error |-> "Endpoint not found"]])]

\* app.use((err, req, res, next) => ...): a request on which a middleware
\* failed (express.json() on a body that is not JSON)
ErrorRequest(r) ==
    /\ CanArrive(r)
    /\ seq' = seq + 1
    /\ UNCHANGED <<feedCache, now, ticks>>
    /\ reqs' = [reqs EXCEPT ![r] = ServerResponded(r, "error",
           [status |-> 500, body |-> [error |-> "Internal server error"]])]

\* ------------------------------------------------------------------------
\* Specifications
\* ------------------------------------------------------------------------

\* the cache under requests for two feed URLs, clear and status, with
\* fetches that succeed
Next ==
    \/ \E r \in Reqs, q \in CacheInputs : EpisodesRequest(r, q)
    \/ \E r \in Reqs, out \in CacheOutcomes : EpisodesResume(r, out)
    \/ \E r \in Reqs : ClearRequest(r)
    \/ \E r \in Reqs : StatusRequest(r)
    \/ \E d \in TickSteps : Tick(d)

Spec == Init /\ [][Next]_vars

\* fewer requests, whose fetches bring different feeds or fail, and
\* requests with an invalid feedUrl
NextFeeds ==
    \/ \E r \in ReqsFeeds, q \in FeedsInputs : EpisodesRequest(r, q)
    \/ \E r \in ReqsFeeds, out \in FeedsOutcomes : EpisodesResume(r, out)
    \/ \E r \in ReqsFeeds : ClearRequest(r)
    \/ \E r \in ReqsFeeds : StatusRequest(r)
    \/ \E d \in TickSteps : Tick(d)

SpecFeeds == Init /\ [][NextFeeds]_vars

\* every kind of feedUrl value and every way a fetch settles
NextInputs ==
    \/ \E r \in ReqsFeeds, q \in FeedUrlInputs : EpisodesRequest(r, q)
    \/ \E r \in ReqsFeeds, out \in FetchOutcomes : EpisodesResume(r, out)
    \/ \E r \in ReqsFeeds : ClearRequest(r)

SpecInputs == Init /\ [][NextInputs]_vars

\* requests for one feed whose fetches succeed or fail in every way, while
\* time passes
NextFailures ==
    \/ \E r \in ReqsFeeds : EpisodesRequest(r, QueryString(UrlA))
    \/ \E r \in ReqsFeeds, out \in FailureOutcomes : EpisodesResume(r, out)
    \/ \E d \in TickSteps : Tick(d)

SpecFailures == Init /\ [][NextFailures]_vars

\* requests for URLs that differ in one character, while time passes
NextKeys ==
    \/ \E r \in ReqsFeeds, q \in KeysInputs : EpisodesRequest(r, q)
    \/ \E r \in ReqsFeeds, out \in KeysOutcomes : EpisodesResume(r, out)
    \/ \E d \in TickSteps : Tick(d)

SpecKeys == Init /\ [][NextKeys]_vars

\* every handler of the server: search, episodes, health, the handler of
\* unmatched routes and the error handler
NextServer ==
    \/ \E r \in ReqsFeeds, t \in TermInputs : SearchRequest(r, t)
    \/ \E r \in ReqsFeeds, out \in SearchOutcomes : SearchResume(r, out)
    \/ \E r \in ReqsFeeds, q \in ServerFeedUrls : EpisodesRequest(r, q)
    \/ \E r \in ReqsFeeds, out \in ServerFetchOutcomes : EpisodesResume(r, out)
    \/ \E r \in ReqsFeeds : HealthRequest(r)
    \/ \E r \in ReqsFeeds : NotFoundRequest(r)
    \/ \E r \in ReqsFeeds : ErrorRequest(r)

SpecServer == Init /\ [][NextServer]_vars

\* the handlers of the server when every outbound call settles: parseURL
\* and axios.get have a timeout of ten seconds, so each call resolves or
\* rejects, and the event loop then runs the rest of the handler
SpecServerLive ==
    /\ Init
    /\ [][NextServer]_vars
    /\ \A r \in ReqsFeeds :
          /\ WF_vars(\E out \in ServerFetchOutcomes : EpisodesResume(r, out))
          /\ WF_vars(\E out \in SearchOutcomes : SearchResume(r, out))

\* ------------------------------------------------------------------------
\* Vocabulary of the properties
\* ------------------------------------------------------------------------

\* ten minutes, in milliseconds
TenMinutes == 10 * 60 * 1000

Done(r) == reqs[r].pc = "done"

IsEpisodes(r) == reqs[r].route = "episodes"

IsClear(r) == Done(r) /\ reqs[r].route = "clear"

IsStatus(r) == Done(r) /\ reqs[r].route = "status"

\* r fetched the feed, stored the episodes and answered 200, cached: false
IsFreshResponse(r) ==
    /\ Done(r) /\ IsEpisodes(r)
    /\ reqs[r].response.status = 200
    /\ ~reqs[r].response.cached

\* r was answered from the cache
IsCachedResponse(r) ==
    /\ Done(r) /\ IsEpisodes(r)
    /\ reqs[r].response.status = 200
    /\ reqs[r].response.cached

\* the fetch of r settled with a feed that has an item list
FetchSucceeded(r) ==
    /\ reqs[r].outcome.settled
    /\ reqs[r].outcome.ok
    /\ reqs[r].outcome.feed.items.kind = "array"

\* the step is the arrival of request r
Arrives(r) == reqs[r].pc = "idle" /\ reqs'[r].pc # "idle"

\* the step is the second segment of the episodes handler of r
Resumes(r) == reqs[r].pc = "awaiting" /\ reqs'[r].pc = "done"

\* the step is a clear
ClearStep == \E r \in Reqs : Arrives(r) /\ reqs'[r].route = "clear"

\* the step stores an entry for key k
PutStep(k) ==
    \E r \in Reqs : /\ Resumes(r)
                    /\ reqs[r].feedUrl.s = k
                    /\ reqs'[r].response.status = 200

\* ------------------------------------------------------------------------
\* C1
\* ------------------------------------------------------------------------

\* C1: in the state that a request for key k leaves when it has fetched the
\* feed and stored the result, the entry that get(k) returns is valid, its
\* episodes are the normalized list that the response carries and its
\* timestamp is the cacheTimestamp of that response.
C1_PutThenGet ==
    [][\A r \in Reqs :
          (Resumes(r) /\ reqs'[r].response.status = 200)
          => LET entry == MapGet(feedCache', reqs[r].feedUrl.s) IN
             /\ isCacheValid(entry, now')
             /\ ~reqs'[r].response.cached
             /\ entry.episodes = reqs'[r].response.episodes
             /\ entry.episodes = NormalizeEpisodes(reqs'[r].outcome.feed.items.elems)
             /\ entry.timestamp = reqs'[r].response.cacheTimestamp]_vars

\* a request has just replaced an expired entry of its key
C1_Witness ==
    \E r \in Reqs :
        /\ IsFreshResponse(r)
        /\ reqs[r].respondedSeq = seq
        /\ now = reqs[r].response.cacheTimestamp
        /\ now >= TenMinutes
        /\ Len(reqs[r].response.episodes) > 0
        /\ \E p \in Reqs : /\ p # r
                           /\ IsFreshResponse(p)
                           /\ reqs[p].feedUrl = reqs[r].feedUrl
                           /\ reqs[p].response.episodes # reqs[r].response.episodes

\* ------------------------------------------------------------------------
\* C2
\* ------------------------------------------------------------------------

\* the step is the arrival of r2 as the next request for the feed that r1
\* was the first to fetch successfully: every other request for that feed
\* was answered before r1 was, no clear has run since r1 stored its entry,
\* and less than ten minutes have passed since
C2_SecondCall(r1, r2) ==
    /\ IsFreshResponse(r1)
    /\ Arrives(r2)
    /\ reqs'[r2].route = "episodes"
    /\ reqs'[r2].feedUrl = reqs[r1].feedUrl
    /\ \A p \in Reqs \ {r1, r2} :
          (IsEpisodes(p) /\ reqs[p].feedUrl = reqs[r1].feedUrl)
          => (Done(p) /\ reqs[p].respondedSeq < reqs[r1].respondedSeq)
    /\ \A c \in Reqs : IsClear(c) => reqs[c].respondedSeq < reqs[r1].respondedSeq
    /\ now - reqs[r1].response.cacheTimestamp < TenMinutes

\* C2: the second request for a feed, arriving within ten minutes of the
\* first successful fetch of that feed and with no clear in between, is
\* answered at once with cached: true, the episodes and the cacheTimestamp of
\* the first response; it starts no fetch and leaves the cache as it is.
C2_SecondCallServedFromCache ==
    [][\A r1, r2 \in Reqs :
          C2_SecondCall(r1, r2)
          => /\ reqs'[r2].pc = "done"
             /\ reqs'[r2].response =
                   [ status |-> 200,
                     episodes |-> reqs[r1].response.episodes,
                     count |-> Len(reqs[r1].response.episodes),
                     feedUrl |-> reqs[r1].feedUrl.s,
                     cached |-> TRUE,
                     cacheTimestamp |-> reqs[r1].response.cacheTimestamp ]
             /\ ~reqs'[r2].fetched
             /\ feedCache' = feedCache]_vars

\* a second call has just been served from the cache, one millisecond before
\* the entry of the first call expires
C2_Witness ==
    \E r1, r2 \in Reqs :
        /\ IsFreshResponse(r1)
        /\ IsCachedResponse(r2)
        /\ reqs[r2].feedUrl = reqs[r1].feedUrl
        /\ reqs[r2].arrivedSeq > reqs[r1].respondedSeq
        /\ reqs[r2].response.cacheTimestamp = reqs[r1].response.cacheTimestamp
        /\ now - reqs[r1].response.cacheTimestamp = TenMinutes - 1
        /\ reqs[r2].respondedSeq = seq
        /\ ~reqs[r2].fetched

\* ------------------------------------------------------------------------
\* C3
\* ------------------------------------------------------------------------

\* every stored entry is reported valid, by isCacheValid and by status,
\* exactly when it is less than ten minutes old, and get returns it
C3_ValidIffYoung ==
    \A i \in 1..Len(feedCache) :
        LET entry == feedCache[i].data
            age == now - entry.timestamp
        IN  /\ isCacheValid(entry, now) <=> age < TenMinutes
            /\ StatusBody(feedCache, now).entries[i].isValid <=> age < TenMinutes
            /\ (now >= entry.timestamp + TenMinutes) => ~isCacheValid(entry, now)
            /\ MapGet(feedCache, feedCache[i].url) = entry

\* an expired entry survives every step that is neither a clear nor a put
\* for its key: get returns it and status lists it, as not valid
C3_ExpiredStays ==
    \A i \in 1..Len(feedCache) :
        LET k == feedCache[i].url
            entry == feedCache[i].data
        IN  (/\ now - entry.timestamp >= TenMinutes
             /\ ~ClearStep
             /\ ~PutStep(k))
            => /\ MapGet(feedCache', k) = entry
               /\ \E j \in 1..Len(feedCache') :
                     StatusBody(feedCache', now').entries[j] =
                        [ url |-> k,
                          episodeCount |-> Len(entry.episodes),
                          timestamp |-> entry.timestamp,
                          isValid |-> FALSE ]

\* C3: an entry created at t is valid exactly while now - t < TTL (ten
\* minutes); from now = t + TTL on it is not valid, and it is still returned
\* by get and listed by status until it is overwritten or the cache is
\* cleared.
C3_ExpiryIsLazy == []C3_ValidIffYoung /\ [][C3_ExpiredStays]_vars

\* a status request has listed, as not valid, an entry that is exactly ten
\* minutes old and still stored
C3_Witness ==
    \E r \in Reqs, i \in 1..Len(feedCache) :
        /\ now - feedCache[i].data.timestamp = TenMinutes
        /\ IsStatus(r)
        /\ reqs[r].respondedSeq = seq
        /\ reqs[r].response.cacheSize = Len(feedCache)
        /\ reqs[r].response.entries[i].url = feedCache[i].url
        /\ ~reqs[r].response.entries[i].isValid

\* ------------------------------------------------------------------------
\* C4
\* ------------------------------------------------------------------------

\* a request whose key has an entry of age >= TTL at the lookup is not
\* answered from the cache: it starts the fetch and waits for it
C4_StaleLookupFetches ==
    \A r \in Reqs :
        (/\ Arrives(r)
         /\ reqs'[r].route = "episodes"
         /\ reqs'[r].feedUrl.kind = "string"
         /\ MapHas(feedCache, reqs'[r].feedUrl.s)
         /\ now - MapGet(feedCache, reqs'[r].feedUrl.s).timestamp >= TenMinutes)
        => /\ reqs'[r].pc = "awaiting"
           /\ reqs'[r].fetched
           /\ reqs'[r].response = NoResponse
           /\ reqs'[r].cachedData = MapGet(feedCache, reqs'[r].feedUrl.s)

\* when the fetch of such a request settles, the response is never cached:
\* true; when it succeeded, the entry of the key is the newly fetched episodes
\* with the time of the write, later than the timestamp of the stale entry
C4_StaleRefetchOverwrites ==
    \A r \in Reqs :
        (Resumes(r) /\ reqs[r].cachedData.defined)
        => /\ reqs'[r].response.status = 200 => ~reqs'[r].response.cached
           /\ FetchSucceeded(r)' =>
                 LET fetched == NormalizeEpisodes(reqs'[r].outcome.feed.items.elems) IN
                 /\ MapGet(feedCache', reqs[r].feedUrl.s) =
                       [defined |-> TRUE, episodes |-> fetched, timestamp |-> now]
                 /\ now > reqs[r].cachedData.timestamp
                 /\ reqs'[r].response =
                       [ status |-> 200, episodes |-> fetched, count |-> Len(fetched),
                         feedUrl |-> reqs[r].feedUrl.s, cached |-> FALSE,
                         cacheTimestamp |-> now ]

\* C4: the cache is invalidated when the TTL has passed: a request for a key
\* whose entry has age >= TTL at the lookup is never answered with cached:
\* true; it fetches the feed and, when the fetch succeeds, overwrites the entry
\* with the fetched episodes and a new timestamp and answers cached: false.
C4_InvalidatedAfterTTL ==
    [][C4_StaleLookupFetches /\ C4_StaleRefetchOverwrites]_vars

\* a request that found an entry exactly ten minutes old has replaced it
\* with other episodes
C4_Witness ==
    \E r, p \in Reqs :
        /\ IsFreshResponse(r) /\ IsFreshResponse(p)
        /\ reqs[r].feedUrl = reqs[p].feedUrl
        /\ reqs[p].respondedSeq < reqs[r].arrivedSeq
        /\ reqs[r].response.cacheTimestamp
              = reqs[p].response.cacheTimestamp + TenMinutes
        /\ reqs[r].response.episodes # reqs[p].response.episodes
        /\ MapGet(feedCache, reqs[r].feedUrl.s).timestamp
              = reqs[r].response.cacheTimestamp
        /\ \A c \in Reqs : ~IsClear(c)

\* ------------------------------------------------------------------------
\* C5
\* ------------------------------------------------------------------------

\* the keys stored when the clear c ran: those that a request wrote before c
\* and after every clear before c
C5_StoredBefore(c) ==
    { reqs[r].feedUrl.s :
        r \in { w \in Reqs :
                  /\ IsFreshResponse(w)
                  /\ reqs[w].respondedSeq < reqs[c].respondedSeq
                  /\ \A d \in Reqs :
                        IsClear(d) =>
                           \/ reqs[d].respondedSeq < reqs[w].respondedSeq
                           \/ reqs[d].respondedSeq >= reqs[c].respondedSeq } }

\* C5: clear reports the number of entries that were stored just before it
\* ran, valid and expired alike, and removes them all: a status request that
\* follows at once reports cacheSize 0 and no entries.
C5_ClearEmptiesAndCounts ==
    \A c \in Reqs :
        IsClear(c) =>
            /\ reqs[c].response.status = 200
            /\ reqs[c].response.clearedEntries = Cardinality(C5_StoredBefore(c))
            /\ reqs[c].respondedSeq = seq =>
                  /\ feedCache = <<>>
                  /\ StatusBody(feedCache, now).cacheSize = 0
                  /\ StatusBody(feedCache, now).entries = <<>>
            /\ \A t \in Reqs :
                  (IsStatus(t) /\ reqs[t].arrivedSeq = reqs[c].respondedSeq + 1)
                  => /\ reqs[t].response.cacheSize = 0
                     /\ reqs[t].response.entries = <<>>

\* a clear has just removed two entries, one of them expired
C5_Witness ==
    \E c \in Reqs :
        /\ IsClear(c)
        /\ reqs[c].respondedSeq = seq
        /\ reqs[c].response.clearedEntries = 2
        /\ \E w \in Reqs : /\ IsFreshResponse(w)
                           /\ now - reqs[w].response.cacheTimestamp >= TenMinutes

\* ------------------------------------------------------------------------
\* C6
\* ------------------------------------------------------------------------

\* C6: reading never changes the cache: the step of an episodes request up
\* to its lookup (whether it ends in a cache hit or starts a fetch) and a
\* status request leave the keys and every entry as they were.
C6_ReadsDoNotMutate ==
    [][\A r \in Reqs :
          (Arrives(r) /\ reqs'[r].route \in {"episodes", "status"})
          => feedCache' = feedCache]_vars

\* a cache hit and a status request have both run on a stored entry, which
\* is as the request that stored it left it
C6_Witness ==
    \E w, h, t \in Reqs :
        /\ IsFreshResponse(w) /\ IsCachedResponse(h) /\ IsStatus(t)
        /\ reqs[w].respondedSeq < reqs[h].arrivedSeq
        /\ reqs[w].respondedSeq < reqs[t].arrivedSeq
        /\ reqs[t].response.cacheSize = 1
        /\ MapGet(feedCache, reqs[w].feedUrl.s).episodes = reqs[w].response.episodes

\* ------------------------------------------------------------------------
\* C7
\* ------------------------------------------------------------------------

\* C7: nothing expires in the background: a step in which only time passes
\* leaves the cache as it is, a stored key leaves the cache only by a clear,
\* and the entry of a key changes only by a put for that key.
C7_NoBackgroundExpiry ==
    [][/\ now' # now => feedCache' = feedCache
       /\ \A k \in MapKeys(feedCache) :
             /\ ~MapHas(feedCache', k) => ClearStep
             /\ (MapHas(feedCache', k) /\ MapGet(feedCache', k) # MapGet(feedCache, k))
                => PutStep(k)]_vars

\* an entry is still stored long after it expired, after a put for another
\* key
C7_Witness ==
    \E i \in 1..Len(feedCache), w \in Reqs :
        /\ now - feedCache[i].data.timestamp > TenMinutes
        /\ IsFreshResponse(w)
        /\ reqs[w].feedUrl.s # feedCache[i].url
        /\ reqs[w].response.cacheTimestamp >= feedCache[i].data.timestamp + TenMinutes

\* ------------------------------------------------------------------------
\* C8
\* ------------------------------------------------------------------------

\* r1 and r2 asked for the same key, both looked the key up before either
\* was answered, both fetches succeeded, and r2 was answered after r1
C8_ConcurrentMisses(r1, r2) ==
    /\ r1 # r2
    /\ Done(r1) /\ Done(r2)
    /\ IsEpisodes(r1) /\ IsEpisodes(r2)
    /\ reqs[r1].feedUrl = reqs[r2].feedUrl
    /\ reqs[r1].arrivedSeq < reqs[r1].respondedSeq
    /\ reqs[r2].arrivedSeq < reqs[r1].respondedSeq
    /\ reqs[r1].respondedSeq < reqs[r2].respondedSeq
    /\ FetchSucceeded(r1) /\ FetchSucceeded(r2)

\* nothing has written or cleared the key of r since r was answered
C8_NothingAfter(r) ==
    \A p \in Reqs :
        (Done(p) /\ reqs[p].respondedSeq > reqs[r].respondedSeq)
        => /\ ~IsClear(p)
           /\ ~(IsFreshResponse(p) /\ reqs[p].feedUrl = reqs[r].feedUrl)

\* C8: when two requests for the same key both see a miss before either has
\* written, both fetch, both write and both are answered 200 with cached:
\* false, and once both are done the stored entry is the one of the request
\* that wrote later, whichever of the two arrived first.
C8_LastWriteWins ==
    \A r1, r2 \in Reqs :
        C8_ConcurrentMisses(r1, r2)
        => /\ reqs[r1].fetched /\ reqs[r2].fetched
           /\ IsFreshResponse(r1) /\ IsFreshResponse(r2)
           /\ C8_NothingAfter(r2) =>
                 MapGet(feedCache, reqs[r2].feedUrl.s) =
                    [ defined |-> TRUE,
                      episodes |-> reqs[r2].response.episodes,
                      timestamp |-> reqs[r2].response.cacheTimestamp ]

\* the request that arrived first wrote last, in the same millisecond as
\* the other and with other episodes, and its entry is the one stored
C8_Witness ==
    \E r1, r2 \in Reqs :
        /\ C8_ConcurrentMisses(r1, r2)
        /\ C8_NothingAfter(r2)
        /\ reqs[r2].arrivedSeq < reqs[r1].arrivedSeq
        /\ reqs[r1].response.episodes # reqs[r2].response.episodes
        /\ reqs[r1].response.cacheTimestamp = reqs[r2].response.cacheTimestamp
        /\ MapGet(feedCache, reqs[r2].feedUrl.s).episodes = reqs[r2].response.episodes

\* ------------------------------------------------------------------------
\* C9
\* ------------------------------------------------------------------------

\* some request for key k stored exactly these episodes with exactly this
\* timestamp, in a segment that ran before segment number n
C9_OnePut(k, episodes, timestamp, n) ==
    \E w \in Reqs :
        /\ IsFreshResponse(w)
        /\ reqs[w].feedUrl.s = k
        /\ reqs[w].respondedSeq < n
        /\ reqs[w].response.episodes = episodes
        /\ reqs[w].response.cacheTimestamp = timestamp

\* some request for key k stored a list of this length with this timestamp
C9_OnePutOfLength(k, count, timestamp, n) ==
    \E w \in Reqs :
        /\ IsFreshResponse(w)
        /\ reqs[w].feedUrl.s = k
        /\ reqs[w].respondedSeq < n
        /\ Len(reqs[w].response.episodes) = count
        /\ reqs[w].response.cacheTimestamp = timestamp

\* C9: no torn entries: every entry in the cache, every entry that a lookup
\* returned (in a cache hit, or as the stale entry seen by a request that then
\* fetched) and every entry that status listed has the episodes and the
\* timestamp of one single put.
C9_NoTornEntries ==
    /\ \A i \in 1..Len(feedCache) :
          C9_OnePut(feedCache[i].url, feedCache[i].data.episodes,
                    feedCache[i].data.timestamp, seq + 1)
    /\ \A r \in Reqs :
          /\ IsCachedResponse(r) =>
                C9_OnePut(reqs[r].feedUrl.s, reqs[r].response.episodes,
                          reqs[r].response.cacheTimestamp, reqs[r].arrivedSeq)
          /\ (reqs[r].pc = "awaiting" /\ reqs[r].cachedData.defined) =>
                C9_OnePut(reqs[r].feedUrl.s, reqs[r].cachedData.episodes,
                          reqs[r].cachedData.timestamp, reqs[r].arrivedSeq)
          /\ IsStatus(r) =>
                \A i \in 1..Len(reqs[r].response.entries) :
                   C9_OnePutOfLength(reqs[r].response.entries[i].url,
                                     reqs[r].response.entries[i].episodeCount,
                                     reqs[r].response.entries[i].timestamp,
                                     reqs[r].arrivedSeq)

\* the stored entry was written twice, by overlapping requests with
\* different episodes at different times
C9_Witness ==
    \E r1, r2 \in Reqs :
        /\ C8_ConcurrentMisses(r1, r2)
        /\ reqs[r1].response.episodes # reqs[r2].response.episodes
        /\ reqs[r1].response.cacheTimestamp # reqs[r2].response.cacheTimestamp
        /\ MapHas(feedCache, reqs[r1].feedUrl.s)

\* ------------------------------------------------------------------------
\* C10
\* ------------------------------------------------------------------------

\* the feedUrl values that are missing, blank or not parseable as a URL
C10_Missing == {QueryMissing}
C10_Blank == {QueryString(UrlEmpty), QueryString(UrlBlank)}
C10_UnparseableStrings ==
    {QueryString(UrlInvalid), QueryString(UrlNoScheme), QueryString(UrlNoHost)}
C10_Unparseable == C10_UnparseableStrings \cup {QueryArray}

\* the arrival of a request with one of the values of bad is answered 400
\* in the same segment ("Invalid URL format" when the value is not blank),
\* starts no fetch and leaves the cache as it is
C10_FailsFast(bad) ==
    \A r \in Reqs :
        (/\ Arrives(r)
         /\ reqs'[r].route = "episodes"
         /\ reqs'[r].feedUrl \in bad)
        => /\ reqs'[r].pc = "done"
           /\ reqs'[r].response.status = 400
           /\ reqs'[r].feedUrl \in C10_Unparseable
                 => reqs'[r].response.error = "Invalid URL format"
           /\ ~reqs'[r].fetched
           /\ reqs'[r].outcome = NoOutcome
           /\ reqs'[r].respondedSeq = reqs'[r].arrivedSeq
           /\ feedCache' = feedCache

\* C10: validation fails fast: an episodes request whose feedUrl is missing,
\* blank or not parseable as a URL is answered 400 in the segment in which it
\* arrives ("Invalid URL format" when it is not parseable); no fetch is
\* started and the cache is left as it is.
C10_ValidationFailsFast ==
    [][C10_FailsFast(C10_Missing \cup C10_Blank \cup C10_Unparseable)]_vars

\* C10 for the values that are strings or absent: what the code does do
C10_StringsFailFast ==
    [][C10_FailsFast(C10_Missing \cup C10_Blank \cup C10_UnparseableStrings)]_vars

\* ------------------------------------------------------------------------
\* C11
\* ------------------------------------------------------------------------

\* feedUrl strings without a scheme
C11_NoScheme == {QueryString(UrlInvalid), QueryString(UrlNoScheme)}

\* feedUrl strings with a scheme and without a host
C11_NoHost == {QueryString(UrlNoHost), QueryString(UrlMailto)}

\* the arrival of a request with one of the values of bad is answered 400
\* before the cache lookup and the fetch
C11_Rejected(bad) ==
    \A r \in Reqs :
        (/\ Arrives(r)
         /\ reqs'[r].route = "episodes"
         /\ reqs'[r].feedUrl \in bad)
        => /\ reqs'[r].pc = "done"
           /\ reqs'[r].response.status = 400
           /\ reqs'[r].cachedData = NoEntry
           /\ ~reqs'[r].fetched
           /\ feedCache' = feedCache

\* C11: only an absolute URL with a scheme and a host is accepted: a feedUrl
\* without a scheme, or with a scheme and without a host, is answered 400 and
\* reaches neither the cache lookup nor the fetch.
C11_SchemeAndHostRequired == [][C11_Rejected(C11_NoScheme \cup C11_NoHost)]_vars

\* C11 without the host-less URLs of schemes that need no host: what the
\* code does do
C11_SpecialSchemesNeedHost ==
    [][C11_Rejected(C11_NoScheme \cup {QueryString(UrlNoHost)})]_vars

\* ------------------------------------------------------------------------
\* C12
\* ------------------------------------------------------------------------

\* the status that belongs to each way the retrieval of a feed fails: a
\* timeout, a host that is not found, a body that is not a feed (the parser
\* rejects it, or yields no item list), anything else
C12_Expected(out) ==
    IF out = Rejected(ErrTimeout) THEN 504
    ELSE IF out = Rejected(ErrNotFound) THEN 404
    ELSE IF out \in {Rejected(ErrInvalidXML), Resolved(FeedNoItems)} THEN 400
    ELSE 500

\* the fetch of r settled without a feed that has an item list
C12_FetchFailed(r) ==
    /\ Done(r) /\ IsEpisodes(r)
    /\ reqs[r].outcome.settled
    /\ ~FetchSucceeded(r)

\* every request whose fetch failed has the status of its kind of failure
C12_Mapped ==
    \A r \in Reqs :
        C12_FetchFailed(r)
        => /\ reqs[r].response.status = C12_Expected(reqs[r].outcome)
           /\ reqs[r].response.status \in {504, 404, 400, 500}

\* the response of a request is sent once: the segment in which the fetch
\* fails ends the request, and a request that is done keeps its response
C12_SentOnce ==
    \A r \in Reqs :
        /\ (Resumes(r) /\ ~FetchSucceeded(r)') => reqs'[r].response.status # 0
        /\ Done(r) => (Done(r)' /\ reqs'[r].response = reqs[r].response)

C13_FailureKeepsCache ==
    \A r \in Reqs :
        (Resumes(r) /\ ~FetchSucceeded(r)')
        => /\ feedCache' = feedCache
           /\ MapGet(feedCache', reqs[r].feedUrl.s) = MapGet(feedCache, reqs[r].feedUrl.s)
           /\ MapHas(feedCache', reqs[r].feedUrl.s) = MapHas(feedCache, reqs[r].feedUrl.s)

\* a step that changes the cache without clearing it is the segment in
\* which a fetch succeeded, and it changes the entry of that key only
C13_OnlySuccessWrites ==
    (feedCache' # feedCache /\ ~ClearStep)
    => \E r \in Reqs :
          /\ Resumes(r)
          /\ FetchSucceeded(r)'
          /\ \A k \in MapKeys(feedCache) \cup MapKeys(feedCache') :
                k # reqs[r].feedUrl.s => MapGet(feedCache', k) = MapGet(feedCache, k)

\* C13: an entry is created or replaced only after a successful fetch: when
\* the fetch for key k fails (timeout, host not found, malformed feed, feed
\* without an item list, any other error) the cache stays exactly as it was,
\* so a stored entry for k, stale or not, keeps its episodes and timestamp, and
\* no entry is created for a key that had none.
C13_FailedFetchKeepsCache == [][C13_FailureKeepsCache /\ C13_OnlySuccessWrites]_vars

\* a request that found a stale entry for its key has just failed to fetch,
\* and the stale entry is still stored as it was
C13_Witness ==
    \E r, w \in Reqs :
        /\ C12_FetchFailed(r)
        /\ reqs[r].respondedSeq = seq
        /\ IsFreshResponse(w)
        /\ reqs[w].feedUrl = reqs[r].feedUrl
        /\ reqs[w].respondedSeq < reqs[r].arrivedSeq
        /\ now - reqs[w].response.cacheTimestamp >= TenMinutes
        /\ MapGet(feedCache, reqs[r].feedUrl.s) =
              [ defined |-> TRUE,
                episodes |-> reqs[w].response.episodes,
                timestamp |-> reqs[w].response.cacheTimestamp ]

\* ------------------------------------------------------------------------
\* C14
\* ------------------------------------------------------------------------

\* a is b without some of its elements: the elements of a are elements of
\* b, in the order they have in b
RECURSIVE IsSubsequence(_, _)
IsSubsequence(a, b) ==
    IF a = <<>> THEN TRUE
    ELSE IF b = <<>> THEN FALSE
    ELSE IF Head(a) = Head(b) THEN IsSubsequence(Tail(a), Tail(b))
    ELSE IsSubsequence(a, Tail(b))

\* the items of the feed that r fetched, each as the episode it becomes
C14_SourceEpisodes(r) ==
    LET items == reqs[r].outcome.feed.items.elems
    IN  [i \in 1..Len(items) |-> FormatEpisode(items[i])]

\* C14: the episode list of every response and of every cache entry has at
\* most 20 episodes, whatever the number of items of the feed, and the
\* episodes of a fetched list are in the order of their items in the feed.
C14_CappedInFeedOrder ==
    /\ \A i \in 1..Len(feedCache) : Len(feedCache[i].data.episodes) <= 20
    /\ \A r \in Reqs :
          /\ IsCachedResponse(r) => Len(reqs[r].response.episodes) <= 20
          /\ IsFreshResponse(r) =>
                /\ Len(reqs[r].response.episodes) <= 20
                /\ reqs[r].response.count <= 20
                /\ IsSubsequence(reqs[r].response.episodes, C14_SourceEpisodes(r))

\* a feed of 25 items has been answered with 20 episodes, starting with
\* those of its first two items, and these 20 are in the cache
C14_Witness ==
    \E r \in Reqs :
        /\ IsFreshResponse(r)
        /\ Len(reqs[r].outcome.feed.items.elems) = 25
        /\ Len(reqs[r].response.episodes) = 20
        /\ reqs[r].response.episodes[1].title = "ep1"
        /\ reqs[r].response.episodes[2].title = "ep2"
        /\ reqs[r].response.episodes[20].title = "ep20"
        /\ MapGet(feedCache, reqs[r].feedUrl.s).episodes = reqs[r].response.episodes

\* ------------------------------------------------------------------------
\* C15
\* ------------------------------------------------------------------------

IsSearch(r) == reqs[r].route = "search"

\* r was answered 200 by the search handler
IsSearchOK(r) == Done(r) /\ IsSearch(r) /\ reqs[r].response.status = 200

\* r was answered with the podcasts of a results array
IsPodcastsResponse(r) ==
    /\ IsSearchOK(r)
    /\ reqs[r].outcome.data.results.kind = "array"

\* every element of list has a URL under the property url
C15_AllHave(list, url) == \A j \in 1..Len(list) : Truthy(list[j][url])

\* the element e is in list exactly once
C15_Once(e, list) == Cardinality({j \in 1..Len(list) : list[j] = e}) = 1

\* the podcasts of a search response all have a feedUrl, and each record
\* of the results that has one is there exactly once
C15_Podcasts(r) ==
    LET results == reqs[r].outcome.data.results.elems
        podcasts == reqs[r].response.body.podcasts
    IN  /\ C15_AllHave(podcasts, "feedUrl")
        /\ \A i \in 1..Len(results) :
              Truthy(results[i].feedUrl) => C15_Once(FormatPodcast(results[i]), podcasts)
        /\ Len(podcasts) =
              Cardinality({i \in 1..Len(results) : Truthy(results[i].feedUrl)})

\* the episodes of a fetched list all have an audioUrl, and each of the
\* first 20 items that has an enclosure url is there exactly once
C15_Episodes(r) ==
    LET items == reqs[r].outcome.feed.items.elems
        first == 1..Min(20, Len(items))
        episodes == reqs[r].response.episodes
        withAudio == {i \in first : items[i].enclosure.has /\ Truthy(items[i].enclosure.url)}
    IN  /\ C15_AllHave(episodes, "audioUrl")
        /\ \A i \in withAudio : C15_Once(FormatEpisode(items[i]), episodes)
        /\ Len(episodes) = Cardinality(withAudio)

\* C15: normalization drops the records without the required URL and keeps
\* the others: every podcast of a search response has a feedUrl, every episode
\* of an episodes response and of a cache entry has an audioUrl, and every
\* source record with the URL (for episodes, among the first 20 items) is in
\* the list exactly once.
C15_DropsRecordsWithoutUrl ==
    /\ \A i \in 1..Len(feedCache) : C15_AllHave(feedCache[i].data.episodes, "audioUrl")
    /\ \A r \in Reqs :
          /\ IsSearchOK(r) => C15_AllHave(reqs[r].response.body.podcasts, "feedUrl")
          /\ IsPodcastsResponse(r) => C15_Podcasts(r)
          /\ IsCachedResponse(r) => C15_AllHave(reqs[r].response.episodes, "audioUrl")
          /\ IsFreshResponse(r) => C15_Episodes(r)

\* a search has dropped one of four results and an episodes request one of
\* three items
C15_Witness ==
    \E r1, r2 \in Reqs :
        /\ IsPodcastsResponse(r1)
        /\ Len(reqs[r1].outcome.data.results.elems) = 4
        /\ Len(reqs[r1].response.body.podcasts) = 3
        /\ IsFreshResponse(r2)
        /\ Len(reqs[r2].outcome.feed.items.elems) = 3
        /\ Len(reqs[r2].response.episodes) = 2

\* ------------------------------------------------------------------------
\* C16
\* ------------------------------------------------------------------------

\* the values of term that are missing, empty or whitespace only
C16_NoTerm == {QueryMissing, QueryString(TermEmpty), QueryString(TermBlank)}

\* C16: a search request whose term is missing, empty or whitespace only is
\* answered 400 in the segment in which it arrives, and axios.get is not
\* called for it.
C16_BlankTermRejected ==
    \A r \in Reqs :
        (IsSearch(r) /\ reqs[r].term \in C16_NoTerm)
        => /\ Done(r)
           /\ reqs[r].response.status = 400
           /\ ~reqs[r].fetched
           /\ reqs[r].outcome = NoOutcome
           /\ reqs[r].respondedSeq = reqs[r].arrivedSeq

\* a search with a whitespace-only term and one without a term have been
\* answered 400
C16_Witness ==
    \E r1, r2 \in Reqs :
        /\ IsSearch(r1) /\ Done(r1)
        /\ reqs[r1].term = QueryString(TermBlank)
        /\ reqs[r1].response.status = 400
        /\ IsSearch(r2) /\ Done(r2)
        /\ reqs[r2].term = QueryMissing
        /\ reqs[r2].response.body.error = "Search term is required"

\* ------------------------------------------------------------------------
\* C17
\* ------------------------------------------------------------------------

\* the call of the iTunes search of r was rejected
C17_CallFailed(r) ==
    /\ Done(r) /\ IsSearch(r)
    /\ reqs[r].outcome.settled
    /\ ~reqs[r].outcome.ok

\* C17: when the call of the iTunes search fails, the response is 504 for a
\* timeout, 502 with the status code of the upstream response in the body for
\* an upstream response with a non-success status, and 500 for any other
\* failure of the transport.
C17_SearchFailureMapping ==
    \A r \in Reqs :
        C17_CallFailed(r) =>
            LET error == reqs[r].outcome.error
                response == reqs[r].response
            IN  /\ error = AxiosTimeout => response.status = 504
                /\ \A n \in UpstreamStatuses :
                      error = AxiosStatus(n) =>
                         /\ response.status = 502
                         /\ response.body.status = n
                /\ error = AxiosNetwork => response.status = 500
                /\ response.status \in {504, 502, 500}

\* one search was answered 502 with the upstream status 503 and another
\* 504 after a timeout
C17_Witness ==
    \E r1, r2 \in Reqs :
        /\ C17_CallFailed(r1) /\ C17_CallFailed(r2)
        /\ reqs[r1].outcome.error = AxiosStatus(503)
        /\ reqs[r1].response.status = 502
        /\ reqs[r1].response.body.status = 503
        /\ reqs[r2].outcome.error = AxiosTimeout
        /\ reqs[r2].response.status = 504

\* ------------------------------------------------------------------------
\* C18
\* ------------------------------------------------------------------------

\* the body of the response of r is {podcasts, count, searchTerm}, with
\* the number of podcasts and the term of the request
C18_Shape(r) ==
    LET body == reqs[r].response.body IN
    /\ DOMAIN body = {"podcasts", "count", "searchTerm"}
    /\ body.count = Len(body.podcasts)
    /\ body.searchTerm = reqs[r].term.s

\* C18: every 200 response of the search handler has the shape {podcasts,
\* count, searchTerm}, with count the number of podcasts and searchTerm the
\* term of the request, on every path that answers 200.
C18_SearchShape == \A r \in Reqs : IsSearchOK(r) => C18_Shape(r)

\* C18 for the answers to a results array: what the code does do
C18_ShapeOfPodcastsResponse == \A r \in Reqs : IsPodcastsResponse(r) => C18_Shape(r)

\* ------------------------------------------------------------------------
\* C19
\* ------------------------------------------------------------------------

\* r is a finished search whose call resolved with one of the data of ds
C19_ResolvedWith(r, ds) ==
    /\ Done(r) /\ IsSearch(r)
    /\ reqs[r].outcome.settled
    /\ reqs[r].outcome.ok
    /\ reqs[r].outcome.data \in ds

\* such a search is answered 200 with an empty list of podcasts
C19_EmptyList(ds) ==
    \A r \in Reqs :
        C19_ResolvedWith(r, ds)
        => /\ reqs[r].response.status = 200
           /\ reqs[r].response.body.podcasts = <<>>

\* C19: when the upstream response has no result collection, or one that is
\* not a list, the search is answered 200 with an empty list of podcasts and
\* not with an error status.
C19_MissingResultsGiveEmptyList ==
    C19_EmptyList({DataNoResults, DataResultsNotArray, DataNull})

\* C19 for the data that are objects: what the code does do
C19_ObjectWithoutResults == C19_EmptyList({DataNoResults, DataResultsNotArray})

\* ------------------------------------------------------------------------
\* C20
\* ------------------------------------------------------------------------

\* the JSON body of a response
BodyOf(response) ==
    IF "body" \in DOMAIN response
    THEN response.body
    ELSE [f \in DOMAIN response \ {"status"} |-> response[f]]

\* r was answered with an error status
IsErrorResponse(r) == Done(r) /\ reqs[r].response.status >= 400

\* the body of the response of r has an error label and a message
C20_LabelAndMessage(r) ==
    LET body == BodyOf(reqs[r].response) IN
    /\ {"error", "message"} \subseteq DOMAIN body
    /\ Truthy(body.error)
    /\ Truthy(body.message)

\* C20: every response with a status 4xx or 5xx, from the search handler,
\* the episodes handler, the handler of unmatched routes and the error
\* handler, has an error label and a message.
C20_ErrorsHaveLabelAndMessage ==
    \A r \in Reqs : IsErrorResponse(r) => C20_LabelAndMessage(r)

\* C20 for the search handler and the episodes handler: what the code does
\* do
C20_RouteErrorsHaveLabelAndMessage ==
    \A r \in Reqs :
        (IsErrorResponse(r) /\ reqs[r].route \in {"search", "episodes"})
        => C20_LabelAndMessage(r)

\* ------------------------------------------------------------------------
\* C21
\* ------------------------------------------------------------------------

\* the step is the status request r
C21_StatusStep(r) == Arrives(r) /\ reqs'[r].route = "status"

\* the entries of the status response that are about key k
C21_EntriesOf(entries, k) == {i \in 1..Len(entries) : entries[i].url = k}

\* the response of the status request r is a snapshot of the cache that
\* the request read, at the time it read it
C21_Snapshot(r) ==
    LET response == reqs'[r].response IN
    /\ reqs'[r].pc = "done"
    /\ response.status = 200
    /\ response.cacheSize = Cardinality(MapKeys(feedCache))
    /\ response.cacheSize = Len(response.entries)
    /\ \A i \in 1..Len(response.entries) :
          response.entries[i].url \in MapKeys(feedCache)
    /\ \A k \in MapKeys(feedCache) :
          /\ Cardinality(C21_EntriesOf(response.entries, k)) = 1
          /\ \A i \in C21_EntriesOf(response.entries, k) :
                LET stored == MapGet(feedCache, k) IN
                /\ response.entries[i].episodeCount = Len(stored.episodes)
                /\ response.entries[i].timestamp = stored.timestamp
                /\ response.entries[i].isValid
                      <=> (now - stored.timestamp < TenMinutes)

\* C21: status is a snapshot of every stored entry, valid or expired:
\* cacheSize is the number of stored keys and the length of entries, and each
\* stored key is listed exactly once, with the length of its episode list, its
\* timestamp and its validity at the time of the status request.
C21_StatusIsSnapshot ==
    [][\A r \in Reqs : C21_StatusStep(r) => C21_Snapshot(r)]_vars

\* a status request has just listed two entries, one expired and one valid
C21_Witness ==
    \E r \in Reqs :
        /\ IsStatus(r)
        /\ reqs[r].respondedSeq = seq
        /\ reqs[r].response.cacheSize = 2
        /\ \E i, j \in 1..Len(reqs[r].response.entries) :
              /\ ~reqs[r].response.entries[i].isValid
              /\ reqs[r].response.entries[j].isValid
              /\ reqs[r].response.entries[i].episodeCount = 2

\* ------------------------------------------------------------------------
\* C22
\* ------------------------------------------------------------------------

\* an episodes request looks up the URL it was given, character for
\* character: it is served from the cache exactly when that very URL has a
\* valid entry, whatever is stored under other URLs
C22_LookupIsVerbatim ==
    \A r \in Reqs :
        (Arrives(r) /\ reqs'[r].route = "episodes")
        => LET k == reqs'[r].feedUrl.s IN
           /\ reqs'[r].pc = "done"
                 <=> (MapHas(feedCache, k) /\ now - MapGet(feedCache, k).timestamp < TenMinutes)
           /\ reqs'[r].pc = "done" =>
                 /\ reqs'[r].response.episodes = MapGet(feedCache, k).episodes
                 /\ reqs'[r].response.cacheTimestamp = MapGet(feedCache, k).timestamp

\* a put stores its entry under the URL of its request and leaves the
\* entry of every other key, and the set of other keys, as they were
C22_PutIsVerbatim ==
    \A r \in Reqs :
        (Resumes(r) /\ reqs'[r].response.status = 200)
        => LET k == reqs[r].feedUrl.s IN
           /\ MapKeys(feedCache') = MapKeys(feedCache) \cup {k}
           /\ MapGet(feedCache', k).episodes = reqs'[r].response.episodes
           /\ \A j \in MapKeys(feedCache) \ {k} :
                 MapGet(feedCache', j) = MapGet(feedCache, j)

\* C22: the feed URL is the cache key as it is: URLs that differ in a
\* character are distinct keys with entries of their own, and a put for key k
\* leaves the entry of every other key, episodes and timestamp, unchanged.
C22_KeyIsVerbatim == [][C22_LookupIsVerbatim /\ C22_PutIsVerbatim]_vars

\* the URL of a feed and the same URL with a slash at its end have entries
\* with different episodes and timestamps
C22_Witness ==
    /\ MapHas(feedCache, UrlA)
    /\ MapHas(feedCache, UrlASlash)
    /\ MapGet(feedCache, UrlA).episodes # MapGet(feedCache, UrlASlash).episodes
    /\ MapGet(feedCache, UrlA).timestamp < MapGet(feedCache, UrlASlash).timestamp

\* ------------------------------------------------------------------------
\* C23
\* ------------------------------------------------------------------------

\* the item has an audio URL
C23_HasAudioUrl(item) == item.enclosure.has /\ Truthy(item.enclosure.url)

\* C23: the cap of 20 items is applied before the filter on the audio URL:
\* the episodes of a fetched list are exactly the items among the first 20 of
\* the feed that have an audio URL, and no item at position 21 or later is in
\* the list, even when the list has fewer than 20 episodes.
C23_CapBeforeFilter ==
    \A r \in Reqs :
        IsFreshResponse(r) =>
            LET items == reqs[r].outcome.feed.items.elems
                episodes == reqs[r].response.episodes
                first == 1..Min(20, Len(items))
                kept == {i \in first : C23_HasAudioUrl(items[i])}
            IN  /\ \A j \in 1..Len(episodes) :
                      \E i \in kept : episodes[j] = FormatEpisode(items[i])
                /\ \A i \in kept :
                      \E j \in 1..Len(episodes) : episodes[j] = FormatEpisode(items[i])
                /\ Len(episodes) = Cardinality(kept)
                /\ \A i \in 21..Len(items) :
                      \A j \in 1..Len(episodes) : episodes[j] # FormatEpisode(items[i])

\* a feed of 22 items, of which the second has no audio URL and the last
\* two have one, has been answered with 19 episodes
C23_Witness ==
    \E r \in Reqs :
        /\ IsFreshResponse(r)
        /\ Len(reqs[r].outcome.feed.items.elems) = 22
        /\ ~C23_HasAudioUrl(reqs[r].outcome.feed.items.elems[2])
        /\ C23_HasAudioUrl(reqs[r].outcome.feed.items.elems[21])
        /\ Len(reqs[r].response.episodes) = 19
        /\ reqs[r].response.episodes[19].title = "ep20"

\* ------------------------------------------------------------------------
\* C24
\* ------------------------------------------------------------------------

\* the property is there: it is neither undefined nor null nor empty
C24_Present(x) == x \notin {Undefined, Null, ""}

\* the title that the item is to get
C24_Title(item) == IF C24_Present(item.title) THEN item.title ELSE "Untitled"

\* the description that the item is to get
C24_Description(item) ==
    IF C24_Present(item.contentSnippet) THEN item.contentSnippet
    ELSE IF C24_Present(item.summary) THEN item.summary
    ELSE IF C24_Present(item.description) THEN item.description
    ELSE "No description available"

\* every episode of the list has a title and a description
C24_NeverAbsent(episodes) ==
    \A j \in 1..Len(episodes) :
        /\ C24_Present(episodes[j].title)
        /\ C24_Present(episodes[j].description)

\* C24: the episode of every kept item has the title of the item, or
\* "Untitled" when the item has none, and the first that the item has of
\* content snippet, summary and description, or "No description available"
\* when it has none; no returned or cached episode is without a title or a
\* description.
C24_FieldFallbacks ==
    /\ \A i \in 1..Len(feedCache) : C24_NeverAbsent(feedCache[i].data.episodes)
    /\ \A r \in Reqs :
          /\ IsCachedResponse(r) => C24_NeverAbsent(reqs[r].response.episodes)
          /\ IsFreshResponse(r) =>
                LET items == reqs[r].outcome.feed.items.elems
                    episodes == reqs[r].response.episodes
                IN  /\ C24_NeverAbsent(episodes)
                    /\ \A j \in 1..Len(episodes) :
                          \E i \in 1..Len(items) :
                             /\ C23_HasAudioUrl(items[i])
                             /\ episodes[j].audioUrl = items[i].enclosure.url
                             /\ episodes[j].title = C24_Title(items[i])
                             /\ episodes[j].description = C24_Description(items[i])

\* a response has an episode for each way the title and the description
\* are found
C24_Witness ==
    \E r \in Reqs :
        /\ IsFreshResponse(r)
        /\ Len(reqs[r].response.episodes) = 4
        /\ reqs[r].response.episodes[1].title = "Untitled"
        /\ reqs[r].response.episodes[1].description = "snippet1"
        /\ reqs[r].response.episodes[2].title = "Untitled"
        /\ reqs[r].response.episodes[2].description = "summary2"
        /\ reqs[r].response.episodes[3].title = "title3"
        /\ reqs[r].response.episodes[3].description = "description3"
        /\ reqs[r].response.episodes[4].description = "No description available"

\* ------------------------------------------------------------------------
\* C25
\* ------------------------------------------------------------------------

\* the podcast that a record of the results is to become; an artwork that
\* is absent is null
C25_Podcast(record) ==
    [ podcastName |-> IF C24_Present(record.collectionName)
                      THEN record.collectionName ELSE "Unknown",
      feedUrl |-> record.feedUrl,
      artwork |-> IF C24_Present(record.artworkUrl600) THEN record.artworkUrl600
                  ELSE IF C24_Present(record.artworkUrl100) THEN record.artworkUrl100
                  ELSE Null,
      artistName |-> IF C24_Present(record.artistName)
                     THEN record.artistName ELSE "Unknown" ]

\* the j-th smallest number of the set S
C25_Nth(S, j) == CHOOSE i \in S : Cardinality({x \in S : x < i}) = j - 1

\* C25: every record of the upstream results that has a feed URL yields
\* exactly one podcast of the response, in the order of the results, with
\* podcastName = collectionName or else "Unknown", artwork = artworkUrl600 or
\* else artworkUrl100 or else none, and artistName = artistName or else
\* "Unknown".
C25_SearchNormalization ==
    \A r \in Reqs :
        IsPodcastsResponse(r) =>
            LET results == reqs[r].outcome.data.results.elems
                podcasts == reqs[r].response.body.podcasts
                kept == {i \in 1..Len(results) : C24_Present(results[i].feedUrl)}
            IN  /\ Len(podcasts) = Cardinality(kept)
                /\ \A j \in 1..Len(podcasts) :
                      podcasts[j] = C25_Podcast(results[C25_Nth(kept, j)])

\* of four results the one without a feed URL was dropped; the others are
\* in the response in their order, one as "Unknown" with the small artwork,
\* one without artwork
C25_Witness ==
    \E r \in Reqs :
        /\ IsPodcastsResponse(r)
        /\ Len(reqs[r].outcome.data.results.elems) = 4
        /\ Len(reqs[r].response.body.podcasts) = 3
        /\ reqs[r].response.body.podcasts[1].podcastName = "podcast1"
        /\ reqs[r].response.body.podcasts[1].artwork = "art600-1"
        /\ reqs[r].response.body.podcasts[2].podcastName = "Unknown"
        /\ reqs[r].response.body.podcasts[2].artistName = "Unknown"
        /\ reqs[r].response.body.podcasts[2].artwork = "art100-3"
        /\ reqs[r].response.body.podcasts[3].artwork = Null

\* ------------------------------------------------------------------------
\* C26
\* ------------------------------------------------------------------------

\* the feeds without a well-formed item collection
C26_NoItemList == {FeedNoItems, FeedItemsNotArray}

\* C26: when the retrieval of the feed succeeds and the feed has no item
\* list (items is missing or is not a list), the request is answered 400 with
\* the error of an invalid feed, and the cache is left as it was: no entry is
\* written or changed.
C26_NoItemsIsInvalidFeed ==
    [][\A r \in Reqs :
          (/\ Resumes(r)
           /\ reqs'[r].outcome.ok
           /\ reqs'[r].outcome.feed \in C26_NoItemList)
          => /\ reqs'[r].response.status = 400
             /\ reqs'[r].response.error = "Invalid RSS feed"
             /\ feedCache' = feedCache]_vars

\* a request that found a stale entry has fetched a feed whose items is
\* not a list and been answered 400, and the stale entry is still stored
C26_Witness ==
    \E r \in Reqs :
        /\ Done(r) /\ IsEpisodes(r)
        /\ reqs[r].outcome.settled
        /\ reqs[r].outcome.ok
        /\ reqs[r].outcome.feed = FeedItemsNotArray
        /\ reqs[r].response.status = 400
        /\ MapHas(feedCache, reqs[r].feedUrl.s)
        /\ now - MapGet(feedCache, reqs[r].feedUrl.s).timestamp >= TenMinutes

\* ------------------------------------------------------------------------
\* C27
\* ------------------------------------------------------------------------

\* C27: in every reachable state every cache entry holds at most 20
\* episodes, each with an audioUrl, and a timestamp that is not later than the
\* current time.
C27_EntryInvariant ==
    \A i \in 1..Len(feedCache) :
        LET entry == feedCache[i].data IN
        /\ Len(entry.episodes) <= 20
        /\ \A j \in 1..Len(entry.episodes) :
              entry.episodes[j].audioUrl \notin {Undefined, Null, ""}
        /\ entry.timestamp <= now

\* the cache holds an entry written earlier from a feed of 22 items, and
\* an entry written at the current time
C27_Witness ==
    \E i, j \in 1..Len(feedCache) :
        /\ Len(feedCache[i].data.episodes) = 19
        /\ feedCache[i].data.timestamp < now
        /\ feedCache[j].data.timestamp = now
        /\ Len(feedCache[j].data.episodes) = 2

\* ------------------------------------------------------------------------
\* C28
\* ------------------------------------------------------------------------

\* the requests of S asked for the same key and all looked it up before
\* any of them was answered, and all are answered
C28_AllLookedUpFirst(S) ==
    /\ S # {}
    /\ \A r \in S : Done(r) /\ IsEpisodes(r) /\ reqs[r].feedUrl.kind = "string"
    /\ \A r1, r2 \in S :
          /\ reqs[r1].feedUrl = reqs[r2].feedUrl
          /\ reqs[r1].arrivedSeq < reqs[r2].respondedSeq

\* every request that waits for a fetch has started a fetch of its own, and
\* of n requests for a key that all looked up before any of them wrote, each
\* has made its fetch and its write: n fetches and n writes
C28_OwnFetch ==
    /\ \A r \in Reqs : reqs[r].pc = "awaiting" => reqs[r].fetched
    /\ \A S \in SUBSET Reqs :
          C28_AllLookedUpFirst(S)
          => /\ Cardinality({r \in S : reqs[r].fetched /\ reqs[r].outcome.settled})
                   = Cardinality(S)
             /\ Cardinality({r \in S : IsFreshResponse(r)}) = Cardinality(S)
             /\ \A r1, r2 \in S :
                   r1 # r2 => reqs[r1].respondedSeq # reqs[r2].respondedSeq

\* a request that sees a miss or a stale entry at its lookup starts its
\* fetch, whatever fetches are in flight, and writes its entry when the fetch
\* has succeeded
C28_OwnFetchStep ==
    \A r \in Reqs :
        /\ (/\ Arrives(r)
             /\ reqs'[r].route = "episodes"
             /\ reqs'[r].feedUrl.kind = "string"
             /\ ~isCacheValid(MapGet(feedCache, reqs'[r].feedUrl.s), now))
            => (reqs'[r].pc = "awaiting" /\ reqs'[r].fetched)
        /\ (Resumes(r) /\ FetchSucceeded(r)')
            => MapGet(feedCache', reqs[r].feedUrl.s) =
                  [ defined |-> TRUE,
                    episodes |-> reqs'[r].response.episodes,
                    timestamp |-> reqs'[r].response.cacheTimestamp ]

\* C28: requests are not coalesced: every episodes request that sees a miss
\* or a stale entry at its lookup makes its own fetch, so n requests for the
\* same key that all look up before any of them writes make n fetches and n
\* writes.
C28_NoCoalescing == []C28_OwnFetch /\ [][C28_OwnFetchStep]_vars

\* three requests for the same key all looked up before any of them was
\* answered, and each has fetched and written
C28_Witness ==
    \E S \in SUBSET Reqs :
        /\ Cardinality(S) = 3
        /\ C28_AllLookedUpFirst(S)
        /\ \A r \in S : reqs[r].fetched /\ IsFreshResponse(r)

\* ------------------------------------------------------------------------
\* C29
\* ------------------------------------------------------------------------

\* r was answered 200 by the episodes handler
IsEpisodesOK(r) == Done(r) /\ IsEpisodes(r) /\ reqs[r].response.status = 200

\* every 200 response has the number of its episodes as count and the URL
\* of its request as feedUrl
C29_CountAndUrl ==
    \A r \in Reqs :
        IsEpisodesOK(r)
        => /\ reqs[r].response.count = Len(reqs[r].response.episodes)
           /\ reqs[r].response.feedUrl = reqs[r].feedUrl.s
           /\ reqs[r].response.cached \in BOOLEAN

\* the cacheTimestamp of a cached response is the timestamp of the entry
\* that the lookup read, and that of a fresh response is the timestamp of the
\* entry that the request has just written
C29_Timestamp ==
    \A r \in Reqs :
        /\ (Arrives(r) /\ IsEpisodesOK(r)')
            => /\ reqs'[r].response.cached
               /\ reqs'[r].response.cacheTimestamp
                     = MapGet(feedCache, reqs'[r].feedUrl.s).timestamp
        /\ (Resumes(r) /\ IsEpisodesOK(r)')
            => /\ ~reqs'[r].response.cached
               /\ reqs'[r].response.cacheTimestamp
                     = MapGet(feedCache', reqs'[r].feedUrl.s).timestamp
               /\ reqs'[r].response.cacheTimestamp = now

\* C29: every 200 response of the episodes handler, cached or fresh, has
\* count equal to the length of its episodes and feedUrl equal to the
\* requested URL; the cacheTimestamp of a fresh response is the timestamp of
\* the entry just written, and that of a cached response the timestamp of the
\* entry that was read.
C29_ResponseFields == []C29_CountAndUrl /\ [][C29_Timestamp]_vars

\* a request for a URL with a space at its end has been answered from the
\* cache, after the request that wrote the entry, with that URL, 19 episodes
\* and a timestamp in the past
C29_Witness ==
    \E r, w \in Reqs :
        /\ IsCachedResponse(r) /\ IsFreshResponse(w)
        /\ reqs[r].feedUrl.s = UrlASpace
        /\ reqs[w].feedUrl.s = UrlASpace
        /\ reqs[r].response.feedUrl = UrlASpace
        /\ reqs[r].response.count = 19
        /\ reqs[r].response.cacheTimestamp = reqs[w].response.cacheTimestamp
        /\ reqs[r].response.cacheTimestamp < now

\* ------------------------------------------------------------------------
\* C30
\* ------------------------------------------------------------------------

\* the clear c ran while r was waiting for its fetch, and the fetch of r
\* then succeeded
C30_ClearedWhileAwaiting(r, c) ==
    /\ IsClear(c)
    /\ Done(r) /\ IsEpisodes(r)
    /\ reqs[r].arrivedSeq < reqs[c].respondedSeq
    /\ reqs[c].respondedSeq < reqs[r].respondedSeq
    /\ FetchSucceeded(r)

\* C30: a clear that runs while a miss for key k waits for its fetch does
\* not cancel the write of that request: when the fetch has succeeded the
\* request is answered 200 with cached: false and, until a later clear or put
\* for k, the entry of k is the one it wrote.
C30_ClearDoesNotCancelWrite ==
    \A r, c \in Reqs :
        C30_ClearedWhileAwaiting(r, c)
        => /\ IsFreshResponse(r)
           /\ C8_NothingAfter(r) =>
                 MapGet(feedCache, reqs[r].feedUrl.s) =
                    [ defined |-> TRUE,
                      episodes |-> reqs[r].response.episodes,
                      timestamp |-> reqs[r].response.cacheTimestamp ]

\* the cache has an entry after a clear, written by a request that arrived
\* before the clear, and no request has arrived since the clear
C30_Witness ==
    \E r, c \in Reqs :
        /\ C30_ClearedWhileAwaiting(r, c)
        /\ \A p \in Reqs : reqs[p].pc # "idle" => reqs[p].arrivedSeq <= reqs[c].respondedSeq
        /\ reqs[r].respondedSeq = seq
        /\ feedCache # <<>>
        /\ MapHas(feedCache, reqs[r].feedUrl.s)

\* ------------------------------------------------------------------------
\* C31
\* ------------------------------------------------------------------------

\* the entry that the lookup of p returned: the one a cached response was
\* built from, or the one a request that waits for its fetch holds
C31_Observed(p) ==
    IF IsCachedResponse(p)
    THEN [ defined |-> TRUE,
           episodes |-> reqs[p].response.episodes,
           timestamp |-> reqs[p].response.cacheTimestamp ]
    ELSE IF reqs[p].pc = "awaiting" /\ IsEpisodes(p)
    THEN reqs[p].cachedData
    ELSE NoEntry

\* the entry e for the key of p was written by a request that had been
\* answered when p looked the key up
C31_WrittenBefore(p, e) ==
    \E w \in Reqs :
        /\ IsFreshResponse(w)
        /\ reqs[w].feedUrl = reqs[p].feedUrl
        /\ reqs[w].respondedSeq < reqs[p].arrivedSeq
        /\ e = [ defined |-> TRUE,
                 episodes |-> reqs[w].response.episodes,
                 timestamp |-> reqs[w].response.cacheTimestamp ]

\* the segment that writes the entry stamps it with the clock of that
\* segment, and the entry is valid until ten minutes after that
C31_StampedAtWrite ==
    \A r \in Reqs :
        (Resumes(r) /\ reqs'[r].response.status = 200)
        => /\ MapGet(feedCache', reqs[r].feedUrl.s).timestamp = now'
           /\ reqs'[r].response.cacheTimestamp = now'
           /\ isCacheValid(MapGet(feedCache', reqs[r].feedUrl.s), now' + TenMinutes - 1)
           /\ ~isCacheValid(MapGet(feedCache', reqs[r].feedUrl.s), now' + TenMinutes)

\* a lookup returns nothing, or an entry written by a request answered
\* before the lookup
C31_LookupSeesFinishedWrites ==
    \A p \in Reqs :
        C31_Observed(p).defined => C31_WrittenBefore(p, C31_Observed(p))

\* C31: an entry is stamped with the clock of the segment that writes it,
\* after the fetch, so its ten minutes start at the write; and a request
\* that looks a key up while a fetch for it is in flight gets a miss or an
\* entry written earlier by a request already answered, never an entry of
\* the fetch in flight.
C31_TimestampAtWrite ==
    []C31_LookupSeesFinishedWrites /\ [][C31_StampedAtWrite]_vars

\* r looked the key up, then w wrote its entry, then p was served from the
\* cache with the entry of w while the fetch of r was in flight, and r wrote
\* an entry with a later timestamp than that of w, so later than the clock at
\* its own arrival
C31_Witness ==
    \E w, r, p \in Reqs :
        /\ IsFreshResponse(w) /\ IsFreshResponse(r) /\ IsCachedResponse(p)
        /\ reqs[w].feedUrl = reqs[r].feedUrl /\ reqs[p].feedUrl = reqs[r].feedUrl
        /\ reqs[r].arrivedSeq < reqs[w].respondedSeq
        /\ reqs[w].respondedSeq < reqs[p].arrivedSeq
        /\ reqs[p].arrivedSeq < reqs[r].respondedSeq
        /\ reqs[p].response.cacheTimestamp = reqs[w].response.cacheTimestamp
        /\ reqs[w].response.cacheTimestamp < reqs[r].response.cacheTimestamp
        /\ MapGet(feedCache, reqs[r].feedUrl.s).timestamp = reqs[r].response.cacheTimestamp

\* ------------------------------------------------------------------------
\* C32
\* ------------------------------------------------------------------------

\* a step that leaves an entry where there was one does not lower its
\* timestamp
C32_OverwriteStep ==
    \A k \in MapKeys(feedCache) \cap MapKeys(feedCache') :
        MapGet(feedCache', k).timestamp >= MapGet(feedCache, k).timestamp

\* of two requests that stored an entry for the same key, the one that
\* stored later did not store an earlier timestamp, whether or not the
\* cache was cleared in between
C32_StoredInOrder ==
    \A w1, w2 \in Reqs :
        ( /\ IsFreshResponse(w1) /\ IsFreshResponse(w2)
          /\ reqs[w1].feedUrl = reqs[w2].feedUrl
          /\ reqs[w1].respondedSeq < reqs[w2].respondedSeq )
        => reqs[w1].response.cacheTimestamp <= reqs[w2].response.cacheTimestamp

\* C32: with a clock that does not go back, the timestamps of the entries
\* stored one after the other for a key never decrease: no overwrite puts
\* an entry with an earlier timestamp in the place of an entry, however the
\* segments of concurrent requests interleave.
C32_TimestampsNeverDecrease ==
    []C32_StoredInOrder /\ [][C32_OverwriteStep]_vars

\* two requests for a key were in flight together, the one that arrived
\* later wrote first, and the other has overwritten its entry with a later
\* timestamp
C32_Witness ==
    \E w1, w2 \in Reqs :
        /\ C8_ConcurrentMisses(w1, w2)
        /\ reqs[w2].arrivedSeq < reqs[w1].arrivedSeq
        /\ reqs[w1].response.cacheTimestamp < reqs[w2].response.cacheTimestamp
        /\ reqs[w2].respondedSeq = seq
        /\ MapGet(feedCache, reqs[w2].feedUrl.s).timestamp = reqs[w2].response.cacheTimestamp

\* ------------------------------------------------------------------------
\* C33
\* ------------------------------------------------------------------------

\* the entry that the response of r describes
C33_EntryOf(response) ==
    [ defined |-> TRUE,
      episodes |-> response.episodes,
      timestamp |-> response.cacheTimestamp ]

\* the segment in which r writes and answers: the response carries the
\* list made from the feed that r fetched, the entry of the key is the one
\* the response describes, and no other request moves in that segment
C33_WriteAndAnswer ==
    \A r \in Reqs :
        (Resumes(r) /\ reqs'[r].response.status = 200)
        => /\ reqs'[r].outcome.ok
           /\ reqs'[r].response.episodes =
                 NormalizeEpisodes(reqs'[r].outcome.feed.items.elems)
           /\ MapGet(feedCache', reqs[r].feedUrl.s) = C33_EntryOf(reqs'[r].response)
           /\ \A p \in Reqs \ {r} : reqs'[p] = reqs[p]

\* a miss response keeps the episodes of its own fetch, and the writes of
\* other requests for the key come in segments before or after the one
\* segment in which r wrote and answered
C33_OwnEpisodes ==
    \A r \in Reqs :
        IsFreshResponse(r)
        => /\ reqs[r].fetched /\ FetchSucceeded(r)
           /\ reqs[r].response.episodes =
                 NormalizeEpisodes(reqs[r].outcome.feed.items.elems)
           /\ \A p \in Reqs \ {r} :
                 Done(p) => reqs[p].respondedSeq # reqs[r].respondedSeq

\* C33: a response with cached: false carries the episodes that this very
\* request fetched, and in the state in which it is sent the entry of its
\* key has the episodes and the cacheTimestamp of the response: the write
\* and the response are one segment, so the write of a concurrent request
\* comes before that write or after that response.
C33_MissResponseMatchesEntry ==
    []C33_OwnEpisodes /\ [][C33_WriteAndAnswer]_vars

\* while r waited for its fetch another request stored other episodes for
\* the same key; r has just overwritten them and answered with its own
C33_Witness ==
    \E r, w \in Reqs :
        /\ C8_ConcurrentMisses(w, r)
        /\ reqs[r].respondedSeq = seq
        /\ reqs[w].response.episodes # reqs[r].response.episodes
        /\ reqs[r].response.episodes = NormalizeEpisodes(reqs[r].outcome.feed.items.elems)
        /\ MapGet(feedCache, reqs[r].feedUrl.s) = C33_EntryOf(reqs[r].response)

\* ------------------------------------------------------------------------
\* C34
\* ------------------------------------------------------------------------

\* r resumes with a feed that has an item list of which no item among the
\* first 20 has an audio URL
C34_FetchedNoEpisodes(r) ==
    /\ Resumes(r)
    /\ reqs'[r].outcome.ok
    /\ HasItemList(reqs'[r].outcome.feed)
    /\ NormalizeEpisodes(reqs'[r].outcome.feed.items.elems) = <<>>

\* p arrives when the entry of its key has no episodes and is less than
\* ten minutes old
C34_FindsNoEpisodes(p) ==
    /\ Arrives(p)
    /\ reqs'[p].route = "episodes"
    /\ reqs'[p].feedUrl.kind = "string"
    /\ LET entry == MapGet(feedCache, reqs'[p].feedUrl.s) IN
       /\ entry.defined
       /\ entry.episodes = <<>>
       /\ now - entry.timestamp < TenMinutes

\* C34: a fetch that succeeds with a list of episodes that is empty after
\* the normalization is cached like any other: the request answers 200 with
\* count 0 and cached: false and stores an entry with no episodes, and a
\* request for that key less than ten minutes later is answered from the
\* cache, with cached: true and count 0, without a fetch and without a
\* change of the cache.
C34_EmptyListIsCached ==
    [][ /\ \A r \in Reqs :
             C34_FetchedNoEpisodes(r)
             => /\ reqs'[r].response.status = 200
                /\ ~reqs'[r].response.cached
                /\ reqs'[r].response.count = 0
                /\ MapGet(feedCache', reqs[r].feedUrl.s) =
                      [defined |-> TRUE, episodes |-> <<>>, timestamp |-> now']
        /\ \A p \in Reqs :
             C34_FindsNoEpisodes(p)
             => /\ reqs'[p].pc = "done"
                /\ ~reqs'[p].fetched
                /\ reqs'[p].response.status = 200
                /\ reqs'[p].response.cached
                /\ reqs'[p].response.count = 0
                /\ reqs'[p].response.episodes = <<>>
                /\ feedCache' = feedCache ]_vars

\* a feed of 21 items, none of the first 20 with audio, was fetched and an
\* entry without episodes stored; a request that came later, within the ten
\* minutes, has been answered from it
C34_Witness ==
    \E w, p \in Reqs :
        /\ IsFreshResponse(w) /\ IsCachedResponse(p)
        /\ reqs[w].respondedSeq < reqs[p].arrivedSeq
        /\ Len(reqs[w].outcome.feed.items.elems) > EPISODE_LIMIT
        /\ reqs[w].response.count = 0
        /\ reqs[p].response.count = 0
        /\ ~reqs[p].fetched
        /\ reqs[p].response.cacheTimestamp = reqs[w].response.cacheTimestamp
        /\ now > reqs[p].response.cacheTimestamp
        /\ MapGet(feedCache, reqs[p].feedUrl.s).episodes = <<>>

\* ------------------------------------------------------------------------
\* C35
\* ------------------------------------------------------------------------

\* r is a request of the episodes route or of the search route
C35_IsRouteRequest(r) == reqs[r].route \in {"episodes", "search"}

\* a response has been sent to r
C35_Answered(r) == reqs[r].response.status # 0

\* a request has a response exactly when its handler has finished
C35_AnsweredIffDone ==
    \A r \in Reqs :
        C35_IsRouteRequest(r) => (C35_Answered(r) <=> Done(r))

\* once a response has been sent no step sends another: the request and
\* its response stay as they are
C35_NoSecondResponse ==
    \A r \in Reqs :
        (C35_IsRouteRequest(r) /\ C35_Answered(r)) => reqs'[r] = reqs[r]

\* every request that has arrived is answered in the end
C35_EventuallyAnswered ==
    \A r \in Reqs :
        (reqs[r].pc # "idle" /\ C35_IsRouteRequest(r)) ~> (Done(r) /\ C35_Answered(r))

\* C35: every request of GET /episodes and of GET /search, whether its
\* parameter is valid or not, gets exactly one response: a response once
\* sent is never followed by a second one, and, the outbound call being one
\* that resolves, rejects or times out, every request is answered in the
\* end.
C35_ExactlyOneResponse ==
    /\ []C35_AnsweredIffDone
    /\ [][C35_NoSecondResponse]_vars
    /\ C35_EventuallyAnswered

\* an episodes request whose fetch timed out and a search request whose
\* call resolved have both been answered, the second after having waited
\* while the first was answered
C35_Witness ==
    \E e, s \in Reqs :
        /\ Done(e) /\ IsEpisodes(e) /\ reqs[e].fetched
        /\ reqs[e].outcome = Rejected(ErrTimeout)
        /\ reqs[e].response.status = 504
        /\ Done(s) /\ IsSearch(s) /\ reqs[s].fetched
        /\ reqs[s].outcome.ok
        /\ reqs[s].response.status = 200
        /\ reqs[s].arrivedSeq < reqs[e].respondedSeq
        /\ reqs[e].respondedSeq < reqs[s].respondedSeq

\* ------------------------------------------------------------------------
\* C36
\* ------------------------------------------------------------------------

\* the status body lists the key k with isValid true
C36_ListedValid(body, k) ==
    \E i \in 1..Len(body.entries) :
        body.entries[i].url = k /\ body.entries[i].isValid

\* the step is the arrival of an episodes request r whose feedUrl passes
\* the validation
C36_LooksUp(r) ==
    /\ Arrives(r)
    /\ reqs'[r].route = "episodes"
    /\ reqs'[r].pc = "awaiting" \/ reqs'[r].response.status = 200

\* the step answers r from the cache, without a fetch
C36_ServedFromCache(r) ==
    /\ reqs'[r].pc = "done"
    /\ reqs'[r].response.status = 200
    /\ reqs'[r].response.cached
    /\ ~reqs'[r].fetched

\* an episodes request is served from the cache exactly when a status at
\* that instant would list its key with isValid true
C36_EpisodesAgreesWithStatus ==
    \A r \in Reqs :
        C36_LooksUp(r)
        => (C36_ServedFromCache(r)
            <=> C36_ListedValid(StatusBody(feedCache, now), reqs'[r].feedUrl.s))

\* a status reports isValid true for exactly the keys whose lookup at that
\* instant would take the cache-hit branch
C36_StatusAgreesWithEpisodes ==
    \A s \in Reqs :
        (Arrives(s) /\ reqs'[s].route = "status")
        => /\ \A i \in 1..Len(reqs'[s].response.entries) :
                 reqs'[s].response.entries[i].isValid
                 <=> isCacheValid(MapGet(feedCache,
                                         CacheKey(reqs'[s].response.entries[i].url)), now)
           /\ \A k \in {UrlA, UrlB} \ MapKeys(feedCache) :
                 /\ ~C36_ListedValid(reqs'[s].response, k)
                 /\ ~isCacheValid(MapGet(feedCache, CacheKey(k)), now)

\* C36: status and the episodes handler agree on freshness: at any
\* instant the status reports isValid true for a key exactly when a GET
\* /episodes for that key at that instant is served from the cache, with
\* cached: true and without a fetch.
C36_FreshnessAgrees ==
    [][C36_EpisodesAgreesWithStatus /\ C36_StatusAgreesWithEpisodes]_vars

\* an entry is exactly ten minutes old: the status has listed it with
\* isValid false and the episodes request that came next at that same
\* instant has found it and gone on to fetch
C36_Witness ==
    \E s, e \in Reqs :
        /\ IsStatus(s)
        /\ IsEpisodes(e) /\ reqs[e].pc = "awaiting"
        /\ reqs[e].arrivedSeq = reqs[s].respondedSeq + 1
        /\ reqs[e].cachedData.defined
        /\ now = reqs[e].cachedData.timestamp + TenMinutes
        /\ \E i \in 1..Len(reqs[s].response.entries) :
              /\ reqs[s].response.entries[i].url = reqs[e].feedUrl.s
              /\ reqs[s].response.entries[i].timestamp = reqs[e].cachedData.timestamp
              /\ ~reqs[s].response.entries[i].isValid

\* ------------------------------------------------------------------------
\* C37
\* ------------------------------------------------------------------------

\* the step runs a segment of the handler of request r
C37_Moves(r) == reqs'[r] # reqs[r]

\* the step is the second segment of an episodes request whose fetch
\* succeeded: the one that stores an entry
C37_SuccessfulMiss(r) ==
    /\ Resumes(r)
    /\ reqs'[r].route = "episodes"
    /\ reqs'[r].response.status = 200

\* the routes, other than episodes, that the claim names
C37_OtherRoutes == {"search", "health", "unmatched", "error"}

\* C37: only a successful episode miss and a clear change the cache: a
\* search request, whatever its outcome, a health check, a request that no
\* route matches, and an episodes request that is served from the cache, is
\* rejected by the validation or whose fetch fails leave the keys and every
\* entry as they were.
C37_OnlyMissAndClearWrite ==
    [][\A r \in Reqs :
          /\ (C37_Moves(r) /\ reqs'[r].route \in C37_OtherRoutes)
                => feedCache' = feedCache
          /\ (C37_Moves(r) /\ reqs'[r].route = "episodes" /\ ~C37_SuccessfulMiss(r))
                => feedCache' = feedCache
          /\ (C37_Moves(r) /\ feedCache' # feedCache)
                => C37_SuccessfulMiss(r) \/ reqs'[r].route = "clear"]_vars

\* an entry was stored; after that a request of another kind arrived (a
\* search whose call failed, or an episodes request whose fetch failed or
\* whose feedUrl was rejected) and has just been answered, and the entry is
\* still the one that was stored
C37_Witness ==
    \E w, p \in Reqs :
        /\ IsFreshResponse(w)
        /\ Len(reqs[w].response.episodes) > 0
        /\ Done(p)
        /\ reqs[w].respondedSeq < reqs[p].arrivedSeq
        /\ reqs[p].respondedSeq = seq
        /\ \/ IsSearch(p) /\ reqs[p].fetched /\ reqs[p].response.status = 502
           \/ IsEpisodes(p) /\ reqs[p].fetched /\ reqs[p].response.status = 504
        /\ feedCache = << [ url |-> reqs[w].feedUrl.s,
                            data |-> [ defined |-> TRUE,
                                       episodes |-> reqs[w].response.episodes,
                                       timestamp |-> reqs[w].response.cacheTimestamp ] ] >>

====
